---- MODULE Spec2Model ----
(***************************************************************************)
(* Model of the Edura generation pipeline:                                 *)
(*   src/src/services/courseService.ts  generateAICourse (the job wrapper) *)
(*   src/src/lib/gemini.ts              the public generation operations   *)
(* Every await of generateAICourse is one step, so concurrent invocations  *)
(* interleave exactly at the suspension points of the async function.      *)
(* Messages are sequences of tokens, so that String.includes is a search   *)
(* and a template literal is a concatenation.                              *)
(***************************************************************************)
EXTENDS Integers, Sequences, FiniteSets, TLC

VARIABLES
    apiKey,        \* gemini.ts: const apiKey (a sequence of characters, <<>> when unset)
    jobs,          \* table ai_course_jobs: row id = index
    courses,       \* table courses: row id = index
    modules,       \* table modules: the inserted rows, in insertion order
    pc,            \* per invocation of generateAICourse: the await it is suspended at
    input,         \* per invocation: the CourseGenerationInput argument
    jobId,         \* per invocation: job.id (0 before the job row exists)
    courseId,      \* per invocation: course.id (0 before the course row exists)
    generated,     \* per invocation: generatedCourse (NoCourse before it exists)
    raised,        \* per invocation: message of the error as first raised by a stage
    stage,         \* per invocation: the stage that raised it ("none" when none)
    caught,        \* per invocation: message of the error caught by the job wrapper
    ret,           \* per invocation: how the call ended and what it returned
    calls,         \* per invocation: provider calls dispatched by it
    modAttempted,  \* per invocation: a modules insert was issued
    userId,        \* per invocation: the result of getCurrentUserId ("" for null)
    jobWrites,     \* per job row: number of updates applied after its creation
    lastOp,        \* the last public generation operation called directly
    providerCalls, \* provider calls dispatched by directly called operations
    norm,          \* the last normalization run: its kind, payload, outcome and result
    text,          \* a provider response text, as a sequence of characters
    extraction,    \* what parseJsonResponse made of text, bare and inside a fence
    rewrite,       \* the last store error looked at by generateAICourse, and what was thrown
    progress,      \* table user_course_progress: the rows, in insertion order
    xp,            \* table users: the xp of the logged-in user
    call           \* per call of a progress operation: its arguments, position and locals

vars == <<apiKey, jobs, courses, modules, pc, input, jobId, courseId, generated,
          raised, stage, caught, ret, calls, modAttempted, userId, jobWrites, lastOp,
          providerCalls, norm, text, extraction, rewrite, progress, xp, call>>

pureVars == <<norm, text, extraction, rewrite>>

progressVars == <<progress, xp, call>>

wrapperVars == <<jobs, courses, modules, pc, input, jobId, courseId, generated,
                 raised, stage, caught, ret, calls, modAttempted, userId, jobWrites>>

-----------------------------------------------------------------------------
(* Bounds *)

NumInv == 2        \* concurrent invocations of generateAICourse
MaxDirectCalls == 3 \* provider calls issued by directly called operations

Invocations == 1..NumInv

-----------------------------------------------------------------------------
(* Values *)

NoMsg == <<>>

Lit(s) == <<s>>

Includes(msg, tok) == \E k \in 1..Len(msg) : msg[k] = tok

MinOf(a, b) == IF a < b THEN a ELSE b

Substring(s, from, to) == SubSeq(s, from + 1, MinOf(to, Len(s)))

ConfiguredKey == <<"A", "I", "z", "a", "S", "y", "A", "4", "J", "k", "B", "g">>

ApiKeys == {<<>>, ConfiguredKey}

ConfigMsg == Lit("Gemini API key is not configured. Please set VITE_GEMINI_API_KEY in your .env file.")

CourseGenericMsg == Lit("Failed to generate course. Please try again.")

CourseParseMsg == Lit("Failed to parse generated course")

JsonSyntaxMsg == Lit("SyntaxError: Unexpected token in JSON")

TypeErrorMsg == Lit("TypeError: Cannot read properties of undefined")

NotLoggedInMsg == Lit("User must be logged in")

TablesMissingMsg == Lit("Database tables not found. Please run the migration SQL in Supabase. See COURSE_MIGRATION.md for instructions.")

MigrationIncompleteMsg == Lit("Database migration incomplete. The courses table still has user_id constraint. Please run migrate-courses-table.sql in Supabase.")

OwnerMissingMsg == Lit("owner_id is required but was not provided. This should not happen - please report this error.")

-----------------------------------------------------------------------------
(* Inputs and generated payloads *)

InputA == [subject |-> "Python", language |-> "en", category |-> "tech"]

InputB == [subject |-> "History", language |-> "en", category |-> ""]

Inputs == {InputA, InputB}

Undefined == [defined |-> FALSE, val |-> <<>>]

Defined(v) == [defined |-> TRUE, val |-> v]

\* JavaScript truthiness of an optional array: only undefined is falsy.
Truthy(opt) == opt.defined

PlainModule ==
    [module_number |-> 1, title |-> "Basics", time_required |-> 45,
     concepts |-> <<"c1">>, examples |-> <<"e1">>,
     content_blocks |-> <<"b1", "b2">>, ide_tasks |-> Undefined]

IdeModule ==
    [module_number |-> 2, title |-> "Practice", time_required |-> 90,
     concepts |-> <<"c2">>, examples |-> <<"e2">>,
     content_blocks |-> <<"b3">>, ide_tasks |-> Defined(<<"t1">>)]

NoCourse == [present |-> FALSE, hasCourse |-> FALSE, title |-> "", level |-> "",
             duration_days |-> 0, modules |-> <<>>, recommended_courses |-> <<>>]

GeneratedCourses ==
    { [present |-> TRUE, hasCourse |-> TRUE, title |-> "Course A", level |-> "beginner",
       duration_days |-> 7, modules |-> <<PlainModule, IdeModule>>,
       recommended_courses |-> <<"next">>] }

\* Valid JSON whose top-level object has no "course" member.
ShapelessPayload ==
    [present |-> TRUE, hasCourse |-> FALSE, title |-> "", level |-> "",
     duration_days |-> 0, modules |-> <<>>, recommended_courses |-> <<>>]

\* What ai.models.generateContent can do: reject with an error, or resolve with text.
\* The text is classified by what the extraction of generateCourse makes of it.
ProviderResponses ==
    { [kind |-> "error", message |-> Lit("Quota exceeded"), payload |-> NoCourse],
      [kind |-> "error", message |-> <<"API key", " not valid">>, payload |-> NoCourse],
      [kind |-> "noBraces", message |-> NoMsg, payload |-> NoCourse],
      [kind |-> "badJson", message |-> NoMsg, payload |-> NoCourse],
      [kind |-> "json", message |-> NoMsg, payload |-> ShapelessPayload] }
    \cup { [kind |-> "json", message |-> NoMsg, payload |-> g] : g \in GeneratedCourses }

-----------------------------------------------------------------------------
(* The store: every call resolves to {data, error}; it never rejects *)

NoError == [code |-> "", message |-> NoMsg]

IsError(e) == e # NoError

JobInsertOutcomes ==
    { NoError,
      [code |-> "42P01", message |-> <<"relation ", "ai_course_jobs", " missing">>],
      [code |-> "PGRST", message |-> <<"table ai_course_jobs ", "does not exist">>],
      [code |-> "42501", message |-> Lit("permission denied for table ai_course_jobs")] }

CourseInsertOutcomes ==
    { NoError,
      [code |-> "23502", message |-> <<"null value in column ", "user_id", " violates not-null constraint">>],
      [code |-> "42501", message |-> Lit("permission denied for table courses")] }

ModulesInsertOutcomes ==
    { NoError,
      [code |-> "23502", message |-> <<"null value in column ", "title", " violates not-null constraint">>] }

JobUpdateOutcomes ==
    { NoError,
      [code |-> "42501", message |-> Lit("permission denied for table ai_course_jobs")] }

Users == {"", "u1"}

-----------------------------------------------------------------------------
(* gemini.ts, generateCourse *)

\* the slip: generateCourse without its key check
EnsureKeySkipped(key) == NoMsg

\* if (!apiKey) throw new Error('Gemini API key is not configured...')
EnsureKey(key) == IF key = <<>> THEN ConfigMsg ELSE NoMsg

\* catch (apiError): an API-key error is rewritten with a masked key prefix
ApiErrorMessage(msg, key) ==
    IF Includes(msg, "API key") \/ Includes(msg, "apikey") \/ Includes(msg, "No API key")
    THEN Lit("Gemini API key error: ") \o msg \o Lit(". Current API key: ")
         \o Substring(key, 0, 10) \o Lit("... Please verify the key is valid.")
    ELSE msg

\* the message of the error the extraction raises on this response (NoMsg: none)
ExtractCourseError(resp) ==
    CASE resp.kind = "noBraces" -> CourseParseMsg
      [] resp.kind = "badJson" -> JsonSyntaxMsg
      [] OTHER -> NoMsg

\* the slip: the catch block rethrows what it caught
GenerateCourseCatchRethrows(msg) == msg

\* the outer catch of generateCourse: whatever was thrown, a new generic error
GenerateCourseCatch(msg) == CourseGenericMsg

\* generateCourse from the provider's answer on: what it throws, or what it returns
GenerateCourseAfterCall(key, resp) ==
    IF resp.kind = "error"
    THEN [raised |-> resp.message, stage |-> "provider",
          thrown |-> GenerateCourseCatch(ApiErrorMessage(resp.message, key)),
          payload |-> NoCourse]
    ELSE IF ExtractCourseError(resp) # NoMsg
    THEN [raised |-> ExtractCourseError(resp), stage |-> "extraction",
          thrown |-> GenerateCourseCatch(ExtractCourseError(resp)),
          payload |-> NoCourse]
    ELSE [raised |-> NoMsg, stage |-> "none", thrown |-> NoMsg, payload |-> resp.payload]

-----------------------------------------------------------------------------
(* courseService.ts, generateAICourse: the pure parts *)

\* the slip: jobError is not looked at
JobInsertErrorIgnored(e) == NoMsg

\* if (jobError) { ... throw ... }: the message of what is thrown (NoMsg: nothing)
JobInsertThrown(e) ==
    IF ~IsError(e) THEN NoMsg
    ELSE IF e.code = "42P01" \/ Includes(e.message, "does not exist")
    THEN TablesMissingMsg
    ELSE e.message

\* the slip: courseError is not looked at
CourseInsertErrorIgnored(e) == NoMsg

\* the slip: courseError thrown as it came, whatever its code
CourseInsertErrorAsIs(e) == IF IsError(e) THEN e.message ELSE NoMsg

\* if (courseError) { ... throw ... }
CourseInsertThrown(e) ==
    IF ~IsError(e) THEN NoMsg
    ELSE IF e.code = "23502" /\ Includes(e.message, "user_id") THEN MigrationIncompleteMsg
    ELSE IF e.code = "23502" /\ Includes(e.message, "owner_id") THEN OwnerMissingMsg
    ELSE e.message

RECURSIVE SumTime(_)
SumTime(mods) ==
    IF mods = <<>> THEN 0 ELSE Head(mods).time_required + SumTime(Tail(mods))

\* Math.ceil(n / 60) for n >= 0
CeilHours(n) == (n + 59) \div 60

CourseData(uid, in, g) ==
    [owner_id |-> uid, title |-> g.title, primary_language |-> in.language,
     level |-> g.level, duration_days |-> g.duration_days,
     total_modules |-> Len(g.modules),
     estimated_hours |-> CeilHours(SumTime(g.modules)),
     is_ai_generated |-> TRUE,
     category |-> IF in.category = "" THEN "General" ELSE in.category,
     tags |-> g.recommended_courses, published |-> FALSE]

\* { ...module.content_blocks, ide_tasks }: an array spread into an object keeps
\* its elements under their indices
IdeContent(m) ==
    [kind |-> "spread", concepts |-> <<>>, examples |-> <<>>, has_concepts |-> FALSE,
     has_examples |-> FALSE, has_content_blocks |-> FALSE, content_blocks |-> <<>>,
     indexed |-> m.content_blocks, ide_tasks |-> m.ide_tasks]

PlainContent(m) ==
    [kind |-> "plain", concepts |-> m.concepts, examples |-> m.examples,
     has_concepts |-> TRUE, has_examples |-> TRUE, has_content_blocks |-> TRUE,
     content_blocks |-> m.content_blocks, indexed |-> <<>>, ide_tasks |-> Undefined]

\* the later spread of { content: ... } replaces the content written first
ModuleRow(cid, m) ==
    [course_id |-> cid, module_number |-> m.module_number, title |-> m.title,
     time_required |-> m.time_required,
     content |-> IF Truthy(m.ide_tasks) THEN IdeContent(m) ELSE PlainContent(m)]

ModuleRows(cid, mods) == [k \in 1..Len(mods) |-> ModuleRow(cid, mods[k])]

NewJob(uid, in) ==
    [user_id |-> uid, status |-> "running", inputs |-> in, result |-> 0,
     error_message |-> NoMsg, finished |-> FALSE]

\* .update(fields).eq('id', id): rows with another id, or no row, are left alone
UpdateDone(js, id, cid) ==
    [j \in DOMAIN js |->
        IF j = id THEN [js[j] EXCEPT !.status = "done", !.result = cid, !.finished = TRUE]
        ELSE js[j]]

\* the slip: the update has no .eq('id', job.id) filter
UpdateFailedAllRows(js, id, msg) ==
    [j \in DOMAIN js |->
        [js[j] EXCEPT !.status = "failed", !.error_message = msg, !.finished = TRUE]]

UpdateFailed(js, id, msg) ==
    [j \in DOMAIN js |->
        IF j = id
        THEN [js[j] EXCEPT !.status = "failed", !.error_message = msg, !.finished = TRUE]
        ELSE js[j]]

CountWrite(w, id) == [j \in DOMAIN w |-> IF j = id THEN w[j] + 1 ELSE w[j]]

\* the slip: the outer catch lets the error out to the caller
OuterCatchRethrows(msg) == [outcome |-> "threw", course |-> 0, error |-> msg]

\* the outer catch of generateAICourse: return { course: null, error: error.message }
OuterCatch(msg) == [outcome |-> "returned", course |-> 0, error |-> msg]

\* return { course, error: null }
ReturnCourse(cid) == [outcome |-> "returned", course |-> cid, error |-> NoMsg]

Pending == [outcome |-> "pending", course |-> 0, error |-> NoMsg]

\* the slip: no return after the 'done' update, control reaches the failure update
AfterMarkDoneFallsThrough == "markFailed"

\* where control is after the 'done' update: the return statement
AfterMarkDone == "returned"

-----------------------------------------------------------------------------
(* gemini.ts, second generation: JavaScript values as the shaping code sees   *)
(* them.  A value has a type t; a number q kept as twice its value, so that   *)
(* an odd q is a number that is not an integer; a string s kept as a sequence *)
(* of pieces, white space being the pieces of WhiteSpace; and the elements a  *)
(* of an array or the members of an object.                                   *)

JsValue(t, q, s, a) == [t |-> t, q |-> q, s |-> s, a |-> a]

Undef == JsValue("undefined", 0, <<>>, <<>>)

Null == JsValue("null", 0, <<>>, <<>>)

Str(s) == JsValue("string", 0, s, <<>>)

Num(n) == JsValue("number", n + n, <<>>, <<>>)

\* the number n + 0.5
Half(n) == JsValue("number", n + n + 1, <<>>, <<>>)

NaN == JsValue("NaN", 0, <<>>, <<>>)

JsFalse == JsValue("boolean", 0, <<>>, <<>>)

JsTrue == JsValue("boolean", 1, <<>>, <<>>)

Arr(a) == JsValue("array", 0, <<>>, a)

\* an object that is no array, its members in a
Obj(a) == JsValue("object", 0, <<>>, a)

\* value === undefined || value === null
Nullish(v) == v.t \in {"undefined", "null"}

\* ToBoolean
JsTruthy(v) ==
    CASE Nullish(v) -> FALSE
      [] v.t = "NaN" -> FALSE
      [] v.t = "number" -> v.q # 0
      [] v.t = "boolean" -> v.q = 1
      [] v.t = "string" -> v.s # <<>>
      [] OTHER -> TRUE

\* a ?? b
Coalesce(a, b) == IF Nullish(a) THEN b ELSE a

\* a || b
OrElse(a, b) == IF JsTruthy(a) THEN a ELSE b

\* a blank, a line break, and the blank line of the fallback lesson narrative
WhiteSpace == {" ", "\n", "\n\n"}

RECURSIVE TrimStart(_)
TrimStart(s) == IF s # <<>> /\ Head(s) \in WhiteSpace THEN TrimStart(Tail(s)) ELSE s

RECURSIVE TrimEnd(_)
TrimEnd(s) ==
    IF s # <<>> /\ s[Len(s)] \in WhiteSpace THEN TrimEnd(SubSeq(s, 1, Len(s) - 1)) ELSE s

\* String.prototype.trim
Trim(s) == TrimEnd(TrimStart(s))

\* value?.trim() || fallback, the value a string when present
TrimOr(v, fallback) ==
    IF Nullish(v) \/ Trim(v.s) = <<>> THEN fallback ELSE Trim(v.s)

Digits == <<"0", "1", "2", "3", "4", "5", "6", "7", "8", "9">>

\* the decimal digits of a natural number
RECURSIVE Decimal(_)
Decimal(n) ==
    IF n < Len(Digits) THEN <<Digits[n + 1]>>
    ELSE Decimal(n \div Len(Digits)) \o <<Digits[(n % Len(Digits)) + 1]>>

\* String(value), for the values an id can take
JsString(v) ==
    CASE v.t = "string" -> v.s
      [] v.t = "number" /\ v.q % 2 = 0 /\ v.q >= 0 -> Decimal(v.q \div 2)
      [] v.t = "number" /\ v.q % 2 = 0 /\ v.q < 0 -> <<"-">> \o Decimal((0 - v.q) \div 2)
      [] v.t = "number" /\ v.q % 2 = 1 /\ v.q >= 0 -> Decimal(v.q \div 2) \o <<".", "5">>
      [] v.t = "number" -> <<"-">> \o Decimal((0 - v.q) \div 2) \o <<".", "5">>
      [] v.t = "boolean" -> IF v.q = 1 THEN <<"true">> ELSE <<"false">>
      [] OTHER -> <<v.t>>

\* the value of a string of decimal digits
RECURSIVE DigitsValue(_)
DigitsValue(s) ==
    IF s = <<>> THEN 0
    ELSE DigitsValue(SubSeq(s, 1, Len(s) - 1)) * Len(Digits)
         + (CHOOSE d \in 0..9 : Digits[d + 1] = s[Len(s)])

IsDigits(s) == \A k \in 1..Len(s) : \E d \in 1..Len(Digits) : Digits[d] = s[k]

\* Number(value): a string is trimmed, the empty string is 0, a string that is no
\* numeral is NaN; undefined is NaN, null is 0.  No payload of the model puts an
\* array or an object where a number is read.
JsNumber(v) ==
    CASE v.t \in {"number", "NaN"} -> v
      [] v.t = "null" -> Num(0)
      [] v.t = "boolean" -> Num(v.q)
      [] v.t = "string" /\ IsDigits(Trim(v.s)) -> Num(DigitsValue(Trim(v.s)))
      [] OTHER -> NaN

\* typeof value === 'number'
IsNumberType(v) == v.t \in {"number", "NaN"}

\* Number.isFinite
IsFinite(v) == v.t = "number"

\* Number.isInteger
IsInteger(v) == v.t = "number" /\ v.q % 2 = 0

\* toNumber(value, fallback)
ToNumber(v, fallback) == IF IsFinite(JsNumber(v)) THEN JsNumber(v) ELSE fallback

\* String.prototype.toLowerCase on the words the payloads of the model use
LowerPiece(p) ==
    CASE p = "Easy" -> "easy"
      [] p = "HARD" -> "hard"
      [] p = "Video" -> "video"
      [] p = "Documentation" -> "documentation"
      [] p = "Python" -> "python"
      [] p = "History" -> "history"
      [] p = "Painting" -> "painting"
      [] OTHER -> p

ToLowerCase(s) == [k \in 1..Len(s) |-> LowerPiece(s[k])]

\* normalizeDifficulty(value)
NormalizeDifficulty(v) ==
    IF ~Nullish(v) /\ ToLowerCase(v.s) \in {<<"easy">>, <<"medium">>, <<"hard">>}
    THEN Str(ToLowerCase(v.s))
    ELSE Str(<<"medium">>)

\* array.map(f), the callback given the element and its index from 1
MapSeq(F(_, _), s) == [k \in 1..Len(s) |-> F(s[k], k)]

\* what the shaping part of an operation comes to: the value returned, or the error
\* thrown inside the operation's try block
Returned(v) == [ok |-> TRUE, value |-> v, error |-> NoMsg]

Thrown(msg) == [ok |-> FALSE, value |-> Undef, error |-> msg]

\* calling .map on a payload that is no array
NotAFunctionMsg == Lit("TypeError: map is not a function")

-----------------------------------------------------------------------------
(* generateFlashcards *)

FlashcardOf(card, index) ==
    [question |-> Str(TrimOr(card.question, <<>>)),
     answer |-> Str(TrimOr(card.answer, <<>>))]

KeepFlashcard(card) == JsTruthy(card.question) /\ JsTruthy(card.answer)

ShapeFlashcards(cards) ==
    IF cards.t # "array" THEN Thrown(NotAFunctionMsg)
    ELSE LET flashcards == SelectSeq(MapSeq(FlashcardOf, cards.a), KeepFlashcard)
         IN  IF flashcards = <<>>
             THEN Thrown(Lit("Gemini did not return flashcards."))
             ELSE Returned(Arr(flashcards))

-----------------------------------------------------------------------------
(* generateQuiz *)

TrimmedOption(option, index) == Str(TrimOr(option, <<>>))

QuizItemOf(item, index) ==
    [question |-> Str(TrimOr(item.question, <<>>)),
     options |-> IF item.options.t = "array"
                 THEN Arr(SelectSeq(MapSeq(TrimmedOption, item.options.a), JsTruthy))
                 ELSE Arr(<<>>),
     correctAnswer |-> IF IsNumberType(item.correctAnswer)
                       THEN item.correctAnswer
                       ELSE JsNumber(Coalesce(item.correct_answer, Num(0))),
     correct_answer |-> Undef,
     explanation |-> Str(TrimOr(item.explanation, <<>>))]

KeepQuizItem(item) ==
    /\ JsTruthy(item.question)
    /\ Len(item.options.a) >= 2
    /\ IsInteger(item.correctAnswer)

ShapeQuiz(items) ==
    IF items.t # "array" THEN Thrown(NotAFunctionMsg)
    ELSE LET quiz == SelectSeq(MapSeq(QuizItemOf, items.a), KeepQuizItem)
         IN  IF quiz = <<>>
             THEN Thrown(Lit("Gemini did not return quiz questions."))
             ELSE Returned(Arr(quiz))

-----------------------------------------------------------------------------
(* generateRoadmap *)

MilestoneOf(milestone, index) ==
    [id |-> Str(JsString(Coalesce(milestone.id, Num(index)))),
     title |-> Str(TrimOr(milestone.title, <<"Milestone", " ">> \o Decimal(index))),
     description |-> Str(TrimOr(milestone.description,
                                Lit("Focus on tangible progress for this step."))),
     difficulty |-> NormalizeDifficulty(milestone.difficulty),
     estimatedHours |-> ToNumber(Coalesce(milestone.estimatedHours,
                                          milestone.estimated_hours), Num(6)),
     estimated_hours |-> Undef,
     completed |-> JsFalse]

ShapeRoadmap(milestones) ==
    IF milestones.t # "array" \/ milestones.a = <<>>
    THEN Thrown(Lit("Gemini returned an empty roadmap."))
    ELSE Returned(Arr(MapSeq(MilestoneOf, milestones.a)))

-----------------------------------------------------------------------------
(* generateDetailedRoadmap *)

\* the slip: the spread put last, so that a completed flag of the payload wins
StageOfSpreadLast(stg, index) ==
    [stg EXCEPT !.completed = Coalesce(stg.completed, JsFalse)]

StageOf(stg, index) ==
    [stg EXCEPT
       !.id = Coalesce(stg.id, Str(Decimal(index))),
       !.completed = JsFalse,
       !.topics = Coalesce(stg.topics, Arr(<<>>)),
       !.exercises = Coalesce(stg.exercises, Arr(<<>>)),
       !.projects = Coalesce(stg.projects, Arr(<<>>)),
       !.resources = Coalesce(stg.resources, Arr(<<>>)),
       !.estimatedHours = ToNumber(Coalesce(stg.estimatedHours, stg.estimated_hours),
                                   Num(5)),
       !.difficulty = NormalizeDifficulty(stg.difficulty)]

\* roadmap.stages = (roadmap.stages || []).map(...); return roadmap
ShapeDetailedRoadmap(roadmap) ==
    Returned([roadmap EXCEPT
                !.stages = Arr(MapSeq(StageOf, OrElse(roadmap.stages, Arr(<<>>)).a))])

\* the first definition of generateDetailedRoadmap: only the completed flag is set,
\* and only when the roadmap has stages
FirstStageOf(stg, index) == [stg EXCEPT !.completed = JsFalse]

FirstShapeDetailedRoadmap(roadmap) ==
    IF JsTruthy(roadmap.stages)
    THEN Returned([roadmap EXCEPT !.stages = Arr(MapSeq(FirstStageOf, roadmap.stages.a))])
    ELSE Returned(roadmap)

-----------------------------------------------------------------------------
(* generateCourseOutline *)

\* the words of the model's vocabulary, in lower case, in which the pattern
\* /code|program|dev|...|python|...|app|...|ai|.../i finds a match; the pattern is
\* not anchored, so it finds its 'ai' inside 'painting'
CodingWords == {"python", "app", "painting"}

\* the pattern tested on `${input.topic} ${input.focusArea} ${input.category}`
IsCodingTopic(in) ==
    LET line == JsString(in.topic) \o <<" ">> \o JsString(in.focusArea)
                \o <<" ">> \o JsString(in.category)
    IN  \E k \in 1..Len(line) : LowerPiece(line[k]) \in CodingWords

\* the slip: includeIDE is not looked at
WantsIdeByTopic(in) == IsCodingTopic(in)

\* input.includeIDE ?? isCodingTopic
WantsIde(in) == IF Nullish(in.includeIDE) THEN IsCodingTopic(in) ELSE JsTruthy(in.includeIDE)

PlaceholderQuestion(module, index) ==
    [question |-> Str(<<"What is the key idea from", " ">>
                      \o (IF JsTruthy(module.title) THEN JsString(module.title)
                          ELSE <<"Module", " ">> \o Decimal(index))
                      \o <<"?">>),
     options |-> Arr(<<Str(Lit("Concept A")), Str(Lit("Concept B")),
                       Str(Lit("Concept C")), Str(Lit("Concept D"))>>),
     correctAnswer |-> Num(0),
     explanation |-> Str(Lit("Revisit the main concept taught in this module to reinforce understanding."))]

\* q.question && q.options?.length >= 2
KeepModuleQuestion(q) ==
    JsTruthy(q.question) /\ q.options.t = "array" /\ Len(q.options.a) >= 2

ModuleQuiz(module, index) ==
    LET quiz == SelectSeq(OrElse(module.quizQuestions, Arr(<<>>)).a, KeepModuleQuestion)
    IN  IF quiz = <<>> THEN <<PlaceholderQuestion(module, index)>> ELSE quiz

DefaultHighlights ==
    Arr(<<Str(Lit("Introduce the concept with a relatable scenario.")),
          Str(Lit("Explain the theory step-by-step using plain language.")),
          Str(Lit("Demonstrate with a worked example before assigning practice."))>>)

\* module.lessonHighlights?.length ? module.lessonHighlights : [...]
LessonHighlights(module) ==
    IF ~Nullish(module.lessonHighlights) /\ module.lessonHighlights.a # <<>>
    THEN module.lessonHighlights
    ELSE DefaultHighlights

\* module.lessonNarrative?.trim() ? module.lessonNarrative.trim() : `${module.summary}\n\nGuide ...`
LessonNarrative(module) ==
    IF TrimOr(module.lessonNarrative, <<>>) # <<>>
    THEN Str(Trim(module.lessonNarrative.s))
    ELSE Str(JsString(module.summary)
             \o <<"\n\n", "Guide the learner through the concept">>)

CodingSetup ==
    Obj(<<Str(Lit("VS Code + Online Sandbox")),
          Str(Lit("Install recommended language extensions"))>>)

WorkspaceSetup ==
    Obj(<<Str(Lit("Preferred study workspace")),
          Str(Lit("Use a note-taking or simulation tool"))>>)

\* module.ideSetup && module.ideSetup.tool && module.ideSetup.instructions, the
\* members of an ideSetup object being its tool and its instructions
SuppliedSetup(module) ==
    /\ module.ideSetup.t = "object"
    /\ JsTruthy(module.ideSetup.a[1])
    /\ JsTruthy(module.ideSetup.a[2])

IdeSetup(module, in) ==
    IF ~WantsIde(in) THEN Null
    ELSE IF SuppliedSetup(module) THEN module.ideSetup
    ELSE IF IsCodingTopic(in) THEN CodingSetup
    ELSE WorkspaceSetup

ResourceOf(resource, index) ==
    [title |-> OrElse(resource.title, Str(Lit("Recommended resource"))),
     type |-> OrElse(resource.type, Str(Lit("article"))),
     url |-> resource.url,
     description |-> OrElse(resource.description, Str(<<>>))]

PracticeTaskOf(task, index) ==
    [title |-> OrElse(task.title, Str(Lit("Practice task"))),
     description |-> OrElse(task.description,
                            Str(Lit("Apply what you learned in this module."))),
     difficulty |-> NormalizeDifficulty(task.difficulty)]

\* the callback of (outline.modules || []).map
ModuleOf(module, index, in) ==
    [module EXCEPT
       !.id = Coalesce(module.id, Str(Decimal(index))),
       !.summary = IF TrimOr(module.summary, <<>>) # <<>>
                   THEN Str(Trim(module.summary.s))
                   ELSE OrElse(module.description, Str(Lit("Learning module overview"))),
       !.lessonHighlights = LessonHighlights(module),
       !.keyConcepts = Coalesce(module.keyConcepts, Coalesce(module.topics, Arr(<<>>))),
       !.topics = Coalesce(module.topics, Coalesce(module.keyConcepts, Arr(<<>>))),
       !.activities = Coalesce(module.activities, Arr(<<>>)),
       !.resources = Arr(MapSeq(ResourceOf, OrElse(module.resources, Arr(<<>>)).a)),
       !.flashcards = Arr(SelectSeq(OrElse(module.flashcards, Arr(<<>>)).a, KeepFlashcard)),
       !.practiceTasks = Arr(MapSeq(PracticeTaskOf,
                                    OrElse(module.practiceTasks, Arr(<<>>)).a)),
       !.quizQuestions = Arr(ModuleQuiz(module, index)),
       !.estimatedHours = ToNumber(module.estimatedHours, Num(4)),
       !.ideSetup = IdeSetup(module, in),
       !.lessonNarrative = LessonNarrative(module)]

\* resource.type?.toLowerCase(), '' for a missing type
ResourceType(resource) ==
    IF Nullish(resource.type) THEN <<>> ELSE ToLowerCase(resource.type.s)

HasVideo(module) ==
    \E k \in 1..Len(module.resources.a) :
        ResourceType(module.resources.a[k]) = Lit("video")

\* the slip: the reading check taken as passed
HasArticleAssumed(module) == TRUE

HasArticle(module) ==
    \E k \in 1..Len(module.resources.a) :
        ResourceType(module.resources.a[k])
            \in {Lit("article"), Lit("doc"), Lit("documentation")}

\* encodeURIComponent: a blank becomes %20
EncodePiece(p) == IF p = " " THEN "%20" ELSE p

EncodeURIComponent(s) == [k \in 1..Len(s) |-> EncodePiece(s[k])]

VideoResource(module) ==
    [title |-> Str(JsString(module.title) \o <<" ", "walkthrough (YouTube)">>),
     type |-> Str(Lit("video")),
     url |-> Str(<<"https://www.youtube.com/results?search_query=">>
                 \o EncodeURIComponent(JsString(module.title))),
     description |-> Str(Lit("Search results for a video lesson aligned with this module."))]

ArticleResource(module) ==
    [title |-> Str(JsString(module.title) \o <<" ", "reference guide">>),
     type |-> Str(Lit("article")),
     url |-> Str(<<"https://www.google.com/search?q=">>
                 \o EncodeURIComponent(JsString(module.title) \o <<" ", "tutorial">>)),
     description |-> Str(Lit("Additional reading material to reinforce the lesson."))]

\* the body of modules.forEach: push the video and the article that are missing
CoverResources(module, index) ==
    [module EXCEPT
       !.resources = Arr(module.resources.a
                         \o (IF HasVideo(module) THEN <<>> ELSE <<VideoResource(module)>>)
                         \o (IF HasArticle(module) THEN <<>> ELSE <<ArticleResource(module)>>))]

\* the modules of the outline, shaped and covered
OutlineModules(outline, in) ==
    LET shaped == [k \in 1..Len(OrElse(outline.modules, Arr(<<>>)).a) |->
                     ModuleOf(OrElse(outline.modules, Arr(<<>>)).a[k], k, in)]
    IN  MapSeq(CoverResources, shaped)

RECURSIVE SumHours(_)
\* modules.reduce((sum, module) => sum + (module.estimatedHours || 4), 0), as twice
\* the sum
SumHours(ms) ==
    IF ms = <<>> THEN 0
    ELSE OrElse(Head(ms).estimatedHours, Num(4)).q + SumHours(Tail(ms))

ShapeCourseOutline(outline, in) ==
    LET ms == OutlineModules(outline, in)
    IN  IF ms = <<>>
        THEN Thrown(Lit("Gemini did not return modules."))
        ELSE Returned(
               [title |-> Str(TrimOr(outline.title,
                                     <<"AI Course:", " ">> \o JsString(in.topic))),
                description |-> Str(TrimOr(outline.description, JsString(in.goal))),
                level |-> Coalesce(outline.level, in.level),
                language |-> Coalesce(outline.language, in.preferredLanguage),
                category |-> Coalesce(outline.category,
                                      Coalesce(in.category, Str(Lit("tech")))),
                tags |-> IF ~Nullish(outline.tags) /\ outline.tags.a # <<>>
                         THEN outline.tags
                         ELSE Arr(<<in.topic, in.focusArea>>),
                estimatedHours |-> ToNumber(outline.estimatedHours,
                                            JsValue("number", SumHours(ms), <<>>, <<>>)),
                learningObjectives |-> Coalesce(outline.learningObjectives,
                                                Arr(<<in.goal>>)),
                resources |-> Coalesce(outline.resources, Arr(<<>>)),
                modules |-> Arr(ms)])

-----------------------------------------------------------------------------
(* courseService.ts, the progress operations: getCourseProgress,             *)
(* updateCourseProgress, completeModule and submitQuizAnswer.  Every await   *)
(* on the store is one step of a call; the user is logged in throughout.     *)

NumCalls == 2         \* concurrent calls of the progress operations

MaxModuleNumber == 3  \* module numbers passed to completeModule and submitQuizAnswer

Calls == 1..NumCalls

ModuleNumbers == 1..MaxModuleNumber

\* XP per newly completed module, and per correct quiz answer
XpPerModule == 50

XpPerAnswer == 10

CurrentUser == "u1"

\* the course of the store the calls are about, and ids that are no stored course
StoredCourse == [id |-> <<"c1">>, total_modules |-> 2]

CourseIds == {StoredCourse.id, <<"ext-", "1">>, <<"undefined">>, <<>>}

\* !courseId || courseId === 'undefined'
IdMissing(cid) == cid = <<>> \/ cid = <<"undefined">>

\* !courseId || courseId === 'undefined' || courseId.startsWith('ext-')
IsExternalId(cid) == IdMissing(cid) \/ Head(cid) = "ext-"

\* a progress_percentage, kept as a fraction
Percent(num, den) == [num |-> num, den |-> den]

NoUpdates ==
    [completed_modules |-> Undefined, progress_percentage |-> Undefined,
     quiz_scores |-> Undefined]

\* the totalQuestions argument of submitQuizAnswer
TotalQuestions == 2

\* the scores such a quiz can end with: no answer right, and all of them
Scores == {0, TotalQuestions}

\* the updates a caller passes to updateCourseProgress directly
DirectUpdates ==
    {[NoUpdates EXCEPT !.completed_modules = Defined(1),
                       !.progress_percentage = Defined(Percent(50, 1))]}

NoProgress == [found |-> FALSE, completed_modules |-> 0, quiz_scores |-> <<>>]

NoResult == [outcome |-> "pending", row |-> 0, error |-> NoMsg]

NoCall ==
    [op |-> "none", courseId |-> <<>>, moduleNumber |-> 0, score |-> 0, pc |-> "idle",
     updates |-> NoUpdates, xpEarned |-> 0, xpRead |-> 0, existing |-> 0, ret |-> NoResult]

\* the rows .eq('course_id', courseId).eq('user_id', userId) selects
Matching(rows, cid) ==
    {k \in DOMAIN rows : rows[k].course_id = cid /\ rows[k].user_id = CurrentUser}

\* .single(): the row when the store answers and exactly one row matches; an error,
\* and no data, otherwise
Single(rows, cid, ok) ==
    IF ok /\ Cardinality(Matching(rows, cid)) = 1
    THEN CHOOSE k \in Matching(rows, cid) : TRUE
    ELSE 0

\* getCourseProgress: the progress it returns; null when the id is missing, when
\* the select fails and when not exactly one row matches
ProgressRead(rows, cid, ok) ==
    IF IdMissing(cid) \/ Single(rows, cid, ok) = 0 THEN NoProgress
    ELSE [found |-> TRUE,
          completed_modules |-> rows[Single(rows, cid, ok)].completed_modules,
          quiz_scores |-> rows[Single(rows, cid, ok)].quiz_scores]

\* Math.max(currentCompleted, moduleNumber)
NewCompleted(current, moduleNumber) ==
    IF current > moduleNumber THEN current ELSE moduleNumber

\* the updates completeModule passes on: the new count and its percentage
CompletionUpdates(current, moduleNumber, total) ==
    [NoUpdates EXCEPT
       !.completed_modules = Defined(NewCompleted(current, moduleNumber)),
       !.progress_percentage =
           Defined(Percent(NewCompleted(current, moduleNumber) * 100, total))]

\* xpEarned = (newCompleted - currentCompleted) * 50
CompletionXp(current, moduleNumber) ==
    (NewCompleted(current, moduleNumber) - current) * XpPerModule

\* quizScores[`module_${moduleNumber}`] = score, scores keyed by module number
WithScore(scores, moduleNumber, score) ==
    (moduleNumber :> score) @@ scores

\* Math.round((score / totalQuestions) * totalQuestions * 10); not a number, and so
\* not above 0, for a quiz without questions
QuizXp(score, totalQuestions) ==
    IF totalQuestions = 0 THEN 0 ELSE score * XpPerAnswer

\* .update({...updates}).eq('id', id): the fields passed replace those of the row
UpdatedRow(row, updates) ==
    [row EXCEPT
       !.completed_modules = IF updates.completed_modules.defined
                             THEN updates.completed_modules.val ELSE @,
       !.progress_percentage = IF updates.progress_percentage.defined
                               THEN updates.progress_percentage.val ELSE @,
       !.quiz_scores = IF updates.quiz_scores.defined
                       THEN updates.quiz_scores.val ELSE @]

UpdateProgress(rows, id, updates) ==
    [k \in DOMAIN rows |-> IF k = id THEN UpdatedRow(rows[k], updates) ELSE rows[k]]

\* .insert({course_id, user_id, completed_modules: updates.completed_modules || 0, ...})
InsertedRow(cid, updates) ==
    [course_id |-> cid, user_id |-> CurrentUser,
     completed_modules |-> IF updates.completed_modules.defined
                           THEN updates.completed_modules.val ELSE 0,
     progress_percentage |-> IF updates.progress_percentage.defined
                                /\ updates.progress_percentage.val.num # 0
                             THEN updates.progress_percentage.val ELSE Percent(0, 1),
     quiz_scores |-> IF updates.quiz_scores.defined THEN updates.quiz_scores.val ELSE <<>>]

ExternalMsg == Lit("Cannot update progress for external courses")

CourseNotFoundMsg == Lit("Course not found")

ProgressWriteMsg == Lit("permission denied for table user_course_progress")

-----------------------------------------------------------------------------
(* Initial state *)

NoRewrite == [stage |-> "none", error |-> NoError, thrown |-> NoMsg]

\* no progress row, no XP, no call of a progress operation
IdleProgress ==
    /\ progress = <<>>
    /\ xp = 0
    /\ call = [c \in Calls |-> NoCall]

NoOp == [kind |-> "none", called |-> FALSE, raised |-> NoMsg, thrown |-> NoMsg,
         ok |-> FALSE]

\* no call of generateAICourse has started
IdleWrapper ==
    /\ jobs = <<>>
    /\ courses = <<>>
    /\ modules = <<>>
    /\ pc = [i \in Invocations |-> "getUser"]
    /\ jobId = [i \in Invocations |-> 0]
    /\ courseId = [i \in Invocations |-> 0]
    /\ generated = [i \in Invocations |-> NoCourse]
    /\ raised = [i \in Invocations |-> NoMsg]
    /\ stage = [i \in Invocations |-> "none"]
    /\ caught = [i \in Invocations |-> NoMsg]
    /\ ret = [i \in Invocations |-> Pending]
    /\ calls = [i \in Invocations |-> 0]
    /\ modAttempted = [i \in Invocations |-> FALSE]
    /\ userId = [i \in Invocations |-> ""]
    /\ jobWrites = <<>>

\* no operation has been called directly
IdleDirect ==
    /\ lastOp = NoOp
    /\ providerCalls = 0

NoNorm == [kind |-> "none", raw |-> Undef, in |-> Undef, res |-> Thrown(NoMsg)]

NoExtraction == [done |-> FALSE, res |-> Thrown(NoMsg)]

\* no payload has been normalized, no text extracted
IdlePure ==
    /\ norm = NoNorm
    /\ text = <<>>
    /\ extraction = NoExtraction
    /\ rewrite = NoRewrite

Init ==
    /\ apiKey \in ApiKeys
    \* invocations are interchangeable: those given InputA are numbered first
    /\ \E n \in 0..NumInv : input = [i \in Invocations |-> IF i <= n THEN InputA ELSE InputB]
    /\ IdleWrapper
    /\ IdleDirect
    /\ IdlePure
    /\ IdleProgress

-----------------------------------------------------------------------------
(* generateAICourse, one action per await *)

\* the slip: a provider failure sends the call back to generateCourse for another try
FailRetries(i, st, first, thrown) ==
    /\ raised' = [raised EXCEPT ![i] = first]
    /\ stage' = [stage EXCEPT ![i] = st]
    /\ caught' = [caught EXCEPT ![i] = thrown]
    /\ pc' = [pc EXCEPT ![i] = IF st = "provider" THEN "generate" ELSE "markFailed"]

\* the error of a stage reaches the inner catch of the wrapper
Fail(i, st, first, thrown) ==
    /\ raised' = [raised EXCEPT ![i] = first]
    /\ stage' = [stage EXCEPT ![i] = st]
    /\ caught' = [caught EXCEPT ![i] = thrown]
    /\ pc' = [pc EXCEPT ![i] = "markFailed"]

\* the call has returned: its locals are gone; what stays is what the caller got,
\* the ids of the rows it wrote, and (for the record) the error its inner catch caught
Return(i, r) ==
    /\ ret' = [ret EXCEPT ![i] = r]
    /\ pc' = [pc EXCEPT ![i] = "returned"]
    /\ generated' = [generated EXCEPT ![i] = NoCourse]
    /\ userId' = [userId EXCEPT ![i] = ""]
    /\ raised' = [raised EXCEPT ![i] = NoMsg]
    /\ stage' = [stage EXCEPT ![i] = "none"]

\* const userId = await getCurrentUserId(); if (!userId) throw ...
GetUser(i) ==
    /\ pc[i] = "getUser"
    /\ \E u \in Users :
        IF u = ""
        THEN Return(i, OuterCatch(NotLoggedInMsg))
        ELSE /\ userId' = [userId EXCEPT ![i] = u]
             /\ pc' = [pc EXCEPT ![i] = "insertJob"]
             /\ UNCHANGED <<raised, stage, ret, generated>>
    /\ UNCHANGED <<pureVars, progressVars>>
    /\ UNCHANGED <<apiKey, jobs, courses, modules, input, jobId, courseId,
                   caught, calls, modAttempted, jobWrites, lastOp, providerCalls>>

\* await supabase.from('ai_course_jobs').insert({status: 'running', ...}); if (jobError) ...
InsertJob(i) ==
    /\ pc[i] = "insertJob"
    /\ \E e \in JobInsertOutcomes :
        /\ jobs' = IF IsError(e) THEN jobs ELSE Append(jobs, NewJob(userId[i], input[i]))
        /\ jobWrites' = IF IsError(e) THEN jobWrites ELSE Append(jobWrites, 0)
        /\ jobId' = [jobId EXCEPT ![i] = IF IsError(e) THEN 0 ELSE Len(jobs) + 1]
        /\ IF JobInsertThrown(e) # NoMsg
           THEN Return(i, OuterCatch(JobInsertThrown(e)))
           ELSE /\ pc' = [pc EXCEPT ![i] = "generate"]
                /\ UNCHANGED <<raised, stage, ret, generated, userId>>
    /\ UNCHANGED <<pureVars, progressVars>>
    /\ UNCHANGED <<apiKey, courses, modules, input, courseId, caught, calls,
                   modAttempted, lastOp, providerCalls>>

\* generateCourse(input) up to its await: the key check, then the dispatch
GenerateCourseStart(i) ==
    /\ pc[i] = "generate"
    /\ IF EnsureKey(apiKey) # NoMsg
       THEN /\ Fail(i, "config", EnsureKey(apiKey), GenerateCourseCatch(EnsureKey(apiKey)))
            /\ UNCHANGED calls
       ELSE /\ calls' = [calls EXCEPT ![i] = @ + 1]
            /\ pc' = [pc EXCEPT ![i] = "awaitProvider"]
            /\ UNCHANGED <<raised, stage, caught>>
    /\ UNCHANGED <<pureVars, progressVars>>
    /\ UNCHANGED <<apiKey, jobs, courses, modules, input, jobId, courseId, generated,
                   ret, modAttempted, userId, jobWrites, lastOp, providerCalls>>

\* the provider answers; generateCourse extracts; courseData is built from the result
ProviderRespond(i) ==
    /\ pc[i] = "awaitProvider"
    /\ \E resp \in ProviderResponses :
        LET r == GenerateCourseAfterCall(apiKey, resp) IN
        IF r.thrown # NoMsg
        THEN /\ Fail(i, r.stage, r.raised, r.thrown)
             /\ UNCHANGED generated
        ELSE /\ generated' = [generated EXCEPT ![i] = r.payload]
             /\ IF ~r.payload.hasCourse
                THEN Fail(i, "shape", TypeErrorMsg, TypeErrorMsg)
                ELSE /\ pc' = [pc EXCEPT ![i] = "insertCourse"]
                     /\ UNCHANGED <<raised, stage, caught>>
    /\ UNCHANGED <<pureVars, progressVars>>
    /\ UNCHANGED <<apiKey, jobs, courses, modules, input, jobId, courseId, ret, calls,
                   modAttempted, userId, jobWrites, lastOp, providerCalls>>

\* await supabase.from('courses').insert(courseData); if (courseError) ...
InsertCourse(i) ==
    /\ pc[i] = "insertCourse"
    /\ \E e \in CourseInsertOutcomes :
        /\ courses' = IF IsError(e) THEN courses
                      ELSE Append(courses, CourseData(userId[i], input[i], generated[i]))
        /\ courseId' = [courseId EXCEPT ![i] = IF IsError(e) THEN 0 ELSE Len(courses) + 1]
        /\ IF CourseInsertThrown(e) # NoMsg
           THEN Fail(i, "courseInsert", e.message, CourseInsertThrown(e))
           ELSE /\ pc' = [pc EXCEPT ![i] = "insertModules"]
                /\ UNCHANGED <<raised, stage, caught>>
    /\ UNCHANGED <<pureVars, progressVars>>
    /\ UNCHANGED <<apiKey, jobs, modules, input, jobId, generated, ret, calls,
                   modAttempted, userId, jobWrites, lastOp, providerCalls>>

\* the slip: modulesError is not looked at
InsertModulesErrorIgnored(i) ==
    /\ pc[i] = "insertModules"
    /\ modAttempted' = [modAttempted EXCEPT ![i] = TRUE]
    /\ \E e \in ModulesInsertOutcomes :
        modules' = IF IsError(e) THEN modules
                   ELSE modules \o ModuleRows(courseId[i], generated[i].modules)
    /\ pc' = [pc EXCEPT ![i] = "markDone"]
    /\ UNCHANGED <<raised, stage, caught>>
    /\ UNCHANGED <<pureVars, progressVars>>
    /\ UNCHANGED <<apiKey, jobs, courses, input, jobId, courseId, generated, ret, calls,
                   userId, jobWrites, lastOp, providerCalls>>

\* await supabase.from('modules').insert(modules); if (modulesError) throw modulesError
InsertModules(i) ==
    /\ pc[i] = "insertModules"
    /\ modAttempted' = [modAttempted EXCEPT ![i] = TRUE]
    /\ \E e \in ModulesInsertOutcomes :
        /\ modules' = IF IsError(e) THEN modules
                      ELSE modules \o ModuleRows(courseId[i], generated[i].modules)
        /\ IF IsError(e)
           THEN Fail(i, "moduleInsert", e.message, e.message)
           ELSE /\ pc' = [pc EXCEPT ![i] = "markDone"]
                /\ UNCHANGED <<raised, stage, caught>>
    /\ UNCHANGED <<pureVars, progressVars>>
    /\ UNCHANGED <<apiKey, jobs, courses, input, jobId, courseId, generated, ret, calls,
                   userId, jobWrites, lastOp, providerCalls>>

\* await update({status: 'done', result: {course_id}}).eq('id', job.id): the result of
\* the call is not looked at; return { course, error: null }
UpdateJobDone(i) ==
    /\ pc[i] = "markDone"
    /\ \E e \in JobUpdateOutcomes :
        /\ jobs' = IF IsError(e) THEN jobs ELSE UpdateDone(jobs, jobId[i], courseId[i])
        /\ jobWrites' = IF IsError(e) THEN jobWrites ELSE CountWrite(jobWrites, jobId[i])
    /\ IF AfterMarkDone = "returned"
       THEN Return(i, ReturnCourse(courseId[i]))
       ELSE /\ pc' = [pc EXCEPT ![i] = AfterMarkDone]
            /\ UNCHANGED <<ret, generated, userId, raised, stage>>
    /\ UNCHANGED <<pureVars, progressVars>>
    /\ UNCHANGED <<apiKey, courses, modules, input, jobId, courseId,
                   caught, calls, modAttempted, lastOp, providerCalls>>

\* catch (error): await update({status: 'failed', error_message: error.message}); the
\* result of the call is not looked at; throw error, which the outer catch returns
UpdateJobFailed(i) ==
    /\ pc[i] = "markFailed"
    /\ \E e \in JobUpdateOutcomes :
        /\ jobs' = IF IsError(e) THEN jobs ELSE UpdateFailed(jobs, jobId[i], caught[i])
        /\ jobWrites' = IF IsError(e) THEN jobWrites ELSE CountWrite(jobWrites, jobId[i])
    /\ Return(i, OuterCatch(caught[i]))
    /\ UNCHANGED <<pureVars, progressVars>>
    /\ UNCHANGED <<apiKey, courses, modules, input, jobId, courseId,
                   caught, calls, modAttempted, lastOp, providerCalls>>

Next ==
    \E i \in Invocations :
        \/ GetUser(i)
        \/ InsertJob(i)
        \/ GenerateCourseStart(i)
        \/ ProviderRespond(i)
        \/ InsertCourse(i)
        \/ InsertModules(i)
        \/ UpdateJobDone(i)
        \/ UpdateJobFailed(i)

Spec == Init /\ [][Next]_vars

-----------------------------------------------------------------------------
(* gemini.ts, the public generation operations called directly.  The file    *)
(* holds two generations of them: the first checks the key inline, the      *)
(* second goes through ensureApiReady/generateText/parseJsonResponse.       *)

\* the slip: ensureApiReady lets an unset key through
EnsureApiReadySkipped(key) == NoMsg

\* function ensureApiReady() { if (!apiKey) throw ... }
EnsureApiReady(key) == IF key = <<>> THEN ConfigMsg ELSE NoMsg

FirstGeneration ==
    {"chatWithGemini", "generateSummary", "generateFlashcards", "generateQuiz",
     "generateRoadmap", "generateDetailedRoadmap", "translateText", "generateCourse"}

SecondGeneration ==
    {"chatWithGemini2", "generateRoadmap2", "generateDetailedRoadmap2",
     "generateSummary2", "generateFlashcards2", "generateQuiz2", "translateText2",
     "generateCourseOutline2"}

Operations == FirstGeneration \cup SecondGeneration

\* the message of the error each operation's catch block throws
GenericMsg(op) ==
    CASE op = "chatWithGemini" -> Lit("Failed to get response from AI. Please try again.")
      [] op = "chatWithGemini2" -> Lit("Failed to get AI response. Please try again.")
      [] op \in {"generateSummary", "generateSummary2"} ->
            Lit("Failed to generate summary. Please try again.")
      [] op \in {"generateFlashcards", "generateFlashcards2"} ->
            Lit("Failed to generate flashcards. Please try again.")
      [] op \in {"generateQuiz", "generateQuiz2"} ->
            Lit("Failed to generate quiz. Please try again.")
      [] op \in {"generateRoadmap", "generateRoadmap2"} ->
            Lit("Failed to generate roadmap. Please try again.")
      [] op \in {"generateDetailedRoadmap", "generateDetailedRoadmap2"} ->
            Lit("Failed to generate detailed roadmap. Please try again.")
      [] op \in {"translateText", "translateText2"} ->
            Lit("Failed to translate text. Please try again.")
      [] op = "generateCourse" -> CourseGenericMsg
      [] op = "generateCourseOutline2" ->
            Lit("Failed to generate course outline. Please try again.")

\* the provider's answer to a direct call: a rejection, or text of one of four kinds
\* (no JSON in it, JSON with a syntax error, valid JSON holding no items, a good payload)
DirectResponses == {"error", "prose", "broken", "empty", "good"}

ProviderErrorMsg == Lit("Quota exceeded")

ParseJsonFailedMsg == Lit("Failed to parse JSON from Gemini response.")

TextOperations ==
    {"chatWithGemini", "generateSummary", "translateText",
     "chatWithGemini2", "generateSummary2", "translateText2"}

\* the error each operation raises inside its try block on this answer (NoMsg: none)
ProcessingError(op, resp) ==
    IF resp = "error" THEN ProviderErrorMsg
    ELSE IF op \in TextOperations THEN NoMsg
    ELSE IF resp = "broken" THEN JsonSyntaxMsg
    ELSE IF resp = "prose" THEN
        CASE op = "generateFlashcards" -> Lit("Failed to parse flashcards")
          [] op = "generateQuiz" -> Lit("Failed to parse quiz")
          [] op = "generateRoadmap" -> Lit("Failed to parse roadmap")
          [] op = "generateDetailedRoadmap" -> Lit("Failed to parse detailed roadmap")
          [] op = "generateCourse" -> CourseParseMsg
          [] OTHER -> ParseJsonFailedMsg
    ELSE IF resp = "empty" THEN
        CASE op = "generateRoadmap2" -> Lit("Gemini returned an empty roadmap.")
          [] op = "generateFlashcards2" -> Lit("Gemini did not return flashcards.")
          [] op = "generateQuiz2" -> Lit("Gemini did not return quiz questions.")
          [] op = "generateCourseOutline2" -> Lit("Gemini did not return modules.")
          [] OTHER -> NoMsg
    ELSE NoMsg

\* the key check of an operation: inline in the first generation, ensureApiReady
\* at the head of generateText in the second
KeyCheck(op, key) == IF op \in FirstGeneration THEN EnsureKey(key) ELSE EnsureApiReady(key)

\* one direct call of a public operation, from entry to return or throw
CallOperation(op) ==
    /\ IF KeyCheck(op, apiKey) # NoMsg
       THEN /\ lastOp' = [kind |-> op, called |-> FALSE, raised |-> KeyCheck(op, apiKey),
                          thrown |-> GenericMsg(op), ok |-> FALSE]
            /\ UNCHANGED providerCalls
       ELSE /\ providerCalls < MaxDirectCalls
            /\ providerCalls' = providerCalls + 1
            /\ \E resp \in DirectResponses :
                 lastOp' = [kind |-> op, called |-> TRUE,
                            raised |-> ProcessingError(op, resp),
                            thrown |-> IF ProcessingError(op, resp) # NoMsg
                                       THEN GenericMsg(op) ELSE NoMsg,
                            ok |-> ProcessingError(op, resp) = NoMsg]
    /\ UNCHANGED <<pureVars, progressVars>>
    /\ UNCHANGED <<apiKey, wrapperVars>>

NextGen == \E op \in Operations : CallOperation(op)

SpecGen == Init /\ [][NextGen]_vars

-----------------------------------------------------------------------------
(* The payloads the provider can answer with, after parseJsonResponse.  Each  *)
(* kind has a few raw entries that differ in what the shaping code looks at;  *)
(* a payload is an array of up to MaxItems of them, or no array at all.       *)

MaxItems == 2

SeqsUpTo(S, n) == UNION {[1..k -> S] : k \in 0..n}

Padded(word) == <<" ", word, " ">>

RawCards ==
    {[question |-> Str(Padded("Q")), answer |-> Str(Lit("A"))],
     [question |-> Str(Lit("Q")), answer |-> Str(Lit(" "))],
     [question |-> Undef, answer |-> Str(Lit("A"))]}

FlashcardPayloads == {Arr(s) : s \in SeqsUpTo(RawCards, MaxItems)} \cup {Obj(<<>>)}

TwoOptions == Arr(<<Str(Padded("A")), Str(Lit("B"))>>)

GoodItem ==
    [question |-> Str(Padded("Q")), options |-> TwoOptions, correctAnswer |-> Num(1),
     correct_answer |-> Undef, explanation |-> Str(Padded("why"))]

RawQuizItems ==
    {GoodItem,
     \* the index under its snake_case name, as a numeral
     [GoodItem EXCEPT !.correctAnswer = Undef, !.correct_answer = Str(Lit("1"))],
     \* an index past the last option, and one before the first
     [GoodItem EXCEPT !.correctAnswer = Num(5)],
     [GoodItem EXCEPT !.correctAnswer = Num(0 - 1)],
     \* no index under either name
     [GoodItem EXCEPT !.correctAnswer = Undef, !.explanation = Undef],
     \* an index that is no integer, and one that is no number
     [GoodItem EXCEPT !.correctAnswer = Half(0)],
     [GoodItem EXCEPT !.correctAnswer = Str(Lit("1")), !.correct_answer = Str(Lit("x"))],
     \* one option left after blanks are dropped; no options; no question
     [GoodItem EXCEPT !.options = Arr(<<Str(Lit("A")), Str(Lit(" ")), Null>>)],
     [GoodItem EXCEPT !.options = Undef],
     [GoodItem EXCEPT !.question = Str(Lit(" "))]}

QuizPayloads == {Arr(s) : s \in SeqsUpTo(RawQuizItems, MaxItems)} \cup {Obj(<<>>)}

BareMilestone ==
    [id |-> Undef, title |-> Undef, description |-> Undef, difficulty |-> Undef,
     estimatedHours |-> Undef, estimated_hours |-> Undef, completed |-> Undef]

RawMilestones ==
    {BareMilestone,
     [id |-> Str(Lit("a")), title |-> Str(Padded("Intro")),
      description |-> Str(Padded("Start")), difficulty |-> Str(Lit("Easy")),
      estimatedHours |-> Num(8), estimated_hours |-> Undef, completed |-> JsTrue],
     [BareMilestone EXCEPT !.id = Num(7), !.difficulty = Str(Lit("extreme")),
                           !.estimated_hours = Str(Lit("3")),
                           !.completed = Str(Lit("yes"))],
     [BareMilestone EXCEPT !.estimatedHours = Str(Lit("soon")), !.completed = JsFalse]}

RoadmapPayloads == {Arr(s) : s \in SeqsUpTo(RawMilestones, MaxItems)} \cup {Obj(<<>>)}

BareStage ==
    [id |-> Undef, title |-> Undef, completed |-> Undef, topics |-> Undef,
     exercises |-> Undef, projects |-> Undef, resources |-> Undef,
     estimatedHours |-> Undef, estimated_hours |-> Undef, difficulty |-> Undef]

RawStages ==
    {BareStage,
     [id |-> Str(Lit("w1")), title |-> Str(Padded("Week 1")), completed |-> JsTrue,
      topics |-> Arr(<<Str(Lit("loops"))>>), exercises |-> Arr(<<>>),
      projects |-> Arr(<<>>), resources |-> Arr(<<>>), estimatedHours |-> Num(10),
      estimated_hours |-> Undef, difficulty |-> Str(Lit("HARD"))],
     [BareStage EXCEPT !.completed = Str(Lit("yes")), !.estimated_hours = Str(Lit("3")),
                       !.topics = Null],
     [BareStage EXCEPT !.completed = JsFalse, !.difficulty = Str(Lit("extreme"))]}

\* a detailed roadmap with these stages
RoadmapWith(stages) == [title |-> Str(Lit("Learning Roadmap")), stages |-> stages]

DetailedPayloads ==
    {RoadmapWith(Arr(s)) : s \in SeqsUpTo(RawStages, MaxItems)}
        \cup {RoadmapWith(Undef), RoadmapWith(Null)}

VideoLink(type) ==
    [title |-> Str(Lit("Watch")), type |-> type, url |-> Str(Lit("https://youtu.be/x")),
     description |-> Str(Lit("A lesson"))]

ReadingLink(type) ==
    [title |-> Undef, type |-> type, url |-> Undef, description |-> Undef]

ModuleQuestion(options) ==
    [question |-> Str(Lit("Q")), options |-> options, correctAnswer |-> Num(0),
     explanation |-> Str(Lit("why"))]

BareModule ==
    [id |-> Undef, title |-> Undef, summary |-> Undef, description |-> Undef,
     lessonHighlights |-> Undef, lessonNarrative |-> Undef, keyConcepts |-> Undef,
     topics |-> Undef, activities |-> Undef, resources |-> Undef, flashcards |-> Undef,
     practiceTasks |-> Undef, quizQuestions |-> Undef, estimatedHours |-> Undef,
     ideSetup |-> Undef]

FullModule ==
    [id |-> Str(Lit("m1")), title |-> Str(Lit("Loops")), summary |-> Str(Lit("Sum")),
     description |-> Str(Lit("Intro")),
     lessonHighlights |-> Arr(<<Str(Lit("explain"))>>),
     lessonNarrative |-> Str(Lit("Story")),
     keyConcepts |-> Arr(<<Str(Lit("loop"))>>), topics |-> Arr(<<Str(Lit("for"))>>),
     activities |-> Arr(<<Str(Lit("trace"))>>),
     resources |-> Arr(<<VideoLink(Str(Lit("video"))), ReadingLink(Str(Lit("article")))>>),
     flashcards |-> Arr(<<[question |-> Str(Lit("Q")), answer |-> Str(Lit("A"))]>>),
     practiceTasks |-> Arr(<<[title |-> Str(Lit("Build")), description |-> Undef,
                              difficulty |-> Str(Lit("Easy"))]>>),
     quizQuestions |-> Arr(<<ModuleQuestion(TwoOptions)>>),
     estimatedHours |-> Num(3),
     ideSetup |-> Obj(<<Str(Lit("Replit")), Str(Lit("Open a repl"))>>)]

RawModules ==
    {BareModule,
     FullModule,
     \* a video under a capitalised type and a reading typed documentation; a question
     \* with one option
     [FullModule EXCEPT
        !.resources = Arr(<<VideoLink(Str(Lit("Video"))),
                            ReadingLink(Str(Lit("Documentation")))>>),
        !.quizQuestions = Arr(<<ModuleQuestion(Arr(<<Str(Lit("A"))>>))>>),
        !.ideSetup = Obj(<<Str(Lit("Replit")), Str(<<>>)>>)],
     \* no summary but a description with blanks around it; a resource without a type
     [BareModule EXCEPT !.title = Str(Lit("Tuples")), !.description = Str(Padded("Intro")),
                        !.resources = Arr(<<ReadingLink(Undef)>>),
                        !.estimatedHours = Str(Lit("soon"))],
     \* an empty summary and narrative, a tool resource only
     [BareModule EXCEPT !.summary = Str(<<>>), !.lessonNarrative = Str(Lit(" ")),
                        !.resources = Arr(<<ReadingLink(Str(Lit("tool")))>>),
                        !.quizQuestions = Arr(<<>>), !.ideSetup = Null]}

\* an outline with these modules
OutlineWith(ms) ==
    [title |-> Str(Padded("Course")), description |-> Undef, level |-> Undef,
     language |-> Undef, category |-> Undef, tags |-> Undef, estimatedHours |-> Undef,
     learningObjectives |-> Undef, resources |-> Undef, modules |-> ms]

OutlinePayloads ==
    {OutlineWith(Arr(s)) : s \in SeqsUpTo(RawModules, MaxItems)} \cup {OutlineWith(Undef)}

\* the request of generateCourseOutline, as far as the shaping code reads it
OutlineInput(topic, includeIDE) ==
    [topic |-> Str(Lit(topic)), focusArea |-> Str(Lit("basics")), category |-> Undef,
     goal |-> Str(Lit("learn")), level |-> Str(Lit("beginner")),
     preferredLanguage |-> Str(Lit("English")), includeIDE |-> includeIDE]

OutlineInputs ==
    {OutlineInput(topic, ide) : topic \in {"Python", "History", "Painting"},
                                ide \in {Undef, JsTrue, JsFalse}}

NoInput == Undef

-----------------------------------------------------------------------------
(* The shaping of one payload by one operation; one payload is followed per  *)
(* behaviour                                                                  *)

\* the kind's shaping applied to a payload; the request matters to the course outline
\* only
Shape(kind, payload, in) ==
    CASE kind = "flashcards" -> ShapeFlashcards(payload)
      [] kind = "quiz" -> ShapeQuiz(payload)
      [] kind = "roadmap" -> ShapeRoadmap(payload)
      [] kind = "detailedRoadmap" -> ShapeDetailedRoadmap(payload)
      [] kind = "firstDetailedRoadmap" -> FirstShapeDetailedRoadmap(payload)
      [] kind = "courseOutline" -> ShapeCourseOutline(payload, in)

Shaped(kind, payload, in) ==
    /\ norm = NoNorm
    /\ norm' = [kind |-> kind, raw |-> payload, in |-> in, res |-> Shape(kind, payload, in)]
    /\ UNCHANGED <<apiKey, wrapperVars, lastOp, providerCalls, text, extraction, rewrite,
                   progressVars>>

GenerateFlashcards == \E payload \in FlashcardPayloads : Shaped("flashcards", payload, NoInput)

GenerateQuiz == \E payload \in QuizPayloads : Shaped("quiz", payload, NoInput)

GenerateRoadmap == \E payload \in RoadmapPayloads : Shaped("roadmap", payload, NoInput)

GenerateDetailedRoadmap ==
    \E payload \in DetailedPayloads : Shaped("detailedRoadmap", payload, NoInput)

FirstGenerateDetailedRoadmap ==
    \E payload \in DetailedPayloads : Shaped("firstDetailedRoadmap", payload, NoInput)

GenerateCourseOutline ==
    \E payload \in OutlinePayloads, in \in OutlineInputs :
        Shaped("courseOutline", payload, in)

NextNorm ==
    \/ GenerateFlashcards
    \/ GenerateQuiz
    \/ GenerateRoadmap
    \/ GenerateDetailedRoadmap
    \/ FirstGenerateDetailedRoadmap
    \/ GenerateCourseOutline

\* a configured key, no course generation under way, nothing shaped yet
InitNorm ==
    /\ apiKey = ConfiguredKey
    /\ input = [i \in Invocations |-> InputA]
    /\ IdleWrapper
    /\ IdleDirect
    /\ IdlePure
    /\ IdleProgress

SpecNorm == InitNorm /\ [][NextNorm]_vars

-----------------------------------------------------------------------------
(* gemini.ts, parseJsonResponse.  A text is a sequence of characters.          *)

\* String.prototype.toLowerCase on the letters of a fence tag
LowerChar(c) ==
    CASE c = "J" -> "j"
      [] c = "S" -> "s"
      [] c = "O" -> "o"
      [] c = "N" -> "n"
      [] OTHER -> c

\* the backtick; a TLA+ string cannot hold one, so the apostrophe stands for it
Tick == "'"

JsonFence == <<Tick, Tick, Tick, "j", "s", "o", "n">>

Fence == <<Tick, Tick, Tick>>

\* the text has pattern at position p
StartsAt(s, p, pattern) ==
    /\ p + Len(pattern) - 1 <= Len(s)
    /\ SubSeq(s, p, p + Len(pattern) - 1) = pattern

\* the text has pattern at position p, letter case set aside
StartsAtAnyCase(s, p, pattern) ==
    /\ p + Len(pattern) - 1 <= Len(s)
    /\ [k \in 1..Len(pattern) |-> LowerChar(s[p + k - 1])] = pattern

\* text.replace(/```json/gi, '```'), from position p on
RECURSIVE UntagFences(_, _)
UntagFences(s, p) ==
    IF p > Len(s) THEN <<>>
    ELSE IF StartsAtAnyCase(s, p, JsonFence)
         THEN Fence \o UntagFences(s, p + Len(JsonFence))
         ELSE <<s[p]>> \o UntagFences(s, p + 1)

\* text.replace(/```/g, ''), from position p on
RECURSIVE DropFences(_, _)
DropFences(s, p) ==
    IF p > Len(s) THEN <<>>
    ELSE IF StartsAt(s, p, Fence)
         THEN DropFences(s, p + Len(Fence))
         ELSE <<s[p]>> \o DropFences(s, p + 1)

\* the slip: the tag matched in lower case only
RECURSIVE UntagLowerCaseFences(_, _)
UntagLowerCaseFences(s, p) ==
    IF p > Len(s) THEN <<>>
    ELSE IF StartsAt(s, p, JsonFence)
         THEN Fence \o UntagLowerCaseFences(s, p + Len(JsonFence))
         ELSE <<s[p]>> \o UntagLowerCaseFences(s, p + 1)

StripFencesLowerCaseTag(s) == Trim(DropFences(UntagLowerCaseFences(s, 1), 1))

\* text.replace(/```json/gi, '```').replace(/```/g, '').trim()
StripFences(s) == Trim(DropFences(UntagFences(s, 1), 1))

\* the position after the white space that starts at p
RECURSIVE SkipSpace(_, _)
SkipSpace(s, p) ==
    IF p <= Len(s) /\ s[p] \in WhiteSpace THEN SkipSpace(s, p + 1) ELSE p

\* the position after the run of digits that starts at p
RECURSIVE SkipDigits(_, _)
SkipDigits(s, p) ==
    IF p <= Len(s) /\ IsDigits(<<s[p]>>) THEN SkipDigits(s, p + 1) ELSE p

NoParse == [ok |-> FALSE, value |-> Undef, next |-> 0]

Parsed(v, next) == [ok |-> TRUE, value |-> v, next |-> next]

\* JSON.parse on the JSON the characters of the model can spell: a number without a
\* leading zero, the empty object, and arrays of these; a value read from position p
RECURSIVE ParseValue(_, _)
RECURSIVE ParseElements(_, _, _)
ParseValue(s, at) ==
    LET p == SkipSpace(s, at)
    IN  IF p > Len(s) THEN NoParse
        ELSE IF IsDigits(<<s[p]>>)
        THEN IF s[p] = "0" /\ SkipDigits(s, p) > p + 1 THEN NoParse
             ELSE Parsed(Num(DigitsValue(SubSeq(s, p, SkipDigits(s, p) - 1))),
                         SkipDigits(s, p))
        ELSE IF s[p] = "{"
        THEN IF SkipSpace(s, p + 1) <= Len(s) /\ s[SkipSpace(s, p + 1)] = "}"
             THEN Parsed(Obj(<<>>), SkipSpace(s, p + 1) + 1)
             ELSE NoParse
        ELSE IF s[p] = "["
        THEN IF SkipSpace(s, p + 1) <= Len(s) /\ s[SkipSpace(s, p + 1)] = "]"
             THEN Parsed(Arr(<<>>), SkipSpace(s, p + 1) + 1)
             ELSE ParseElements(s, p + 1, <<>>)
        ELSE NoParse

\* the elements of an array from position p on, those before p already read
ParseElements(s, p, read) ==
    LET v == ParseValue(s, p)
        q == SkipSpace(s, v.next)
    IN  IF ~v.ok \/ q > Len(s) THEN NoParse
        ELSE IF s[q] = "," THEN ParseElements(s, q + 1, Append(read, v.value))
        ELSE IF s[q] = "]" THEN Parsed(Arr(Append(read, v.value)), q + 1)
        ELSE NoParse

\* JSON.parse(text): the whole text is one value, or a SyntaxError is thrown
JsonParse(s) ==
    LET v == ParseValue(s, 1)
    IN  IF v.ok /\ SkipSpace(s, v.next) = Len(s) + 1
        THEN Returned(v.value)
        ELSE Thrown(JsonSyntaxMsg)

\* the positions of character c after position p
After(s, p, c) == {k \in (p + 1)..Len(s) : s[k] = c}

Max(S) == CHOOSE m \in S : \A k \in S : k <= m

Min(S) == CHOOSE m \in S : \A k \in S : m <= k

\* where /(\{[\s\S]*\}|\[[\s\S]*\])/ can start: at a brace with a closing brace
\* somewhere after it, or at a bracket with a closing bracket somewhere after it
MatchStarts(s) ==
    {p \in 1..Len(s) : \/ s[p] = "{" /\ After(s, p, "}") # {}
                       \/ s[p] = "[" /\ After(s, p, "]") # {}}

\* cleaned.match(...)[0]: from the first such start to the last closer of its kind
Match(s) ==
    LET p == Min(MatchStarts(s))
    IN  SubSeq(s, p, Max(After(s, p, IF s[p] = "{" THEN "}" ELSE "]")))

\* the slip: a comma before a closer is dropped before the substring is parsed
RECURSIVE DropTrailingCommas(_)
DropTrailingCommas(s) ==
    IF s = <<>> THEN <<>>
    ELSE IF Head(s) = "," /\ Len(s) > 1 /\ s[2] \in {"]", "}"}
         THEN DropTrailingCommas(Tail(s))
         ELSE <<Head(s)>> \o DropTrailingCommas(Tail(s))

ParseJsonResponseRepairing(t) ==
    LET cleaned == StripFences(t)
        direct == JsonParse(cleaned)
    IN  IF t = <<>> THEN Thrown(Lit("Empty response from Gemini."))
        ELSE IF direct.ok THEN direct
        ELSE IF MatchStarts(cleaned) = {}
             THEN Thrown(Lit("Failed to parse JSON from Gemini response."))
             ELSE JsonParse(DropTrailingCommas(Match(cleaned)))

\* parseJsonResponse(text)
ParseJsonResponse(t) ==
    LET cleaned == StripFences(t)
        direct == JsonParse(cleaned)
    IN  IF t = <<>> THEN Thrown(Lit("Empty response from Gemini."))
        ELSE IF direct.ok THEN direct
        ELSE IF MatchStarts(cleaned) = {}
             THEN Thrown(Lit("Failed to parse JSON from Gemini response."))
             ELSE JsonParse(Match(cleaned))

\* the characters a response text is made of: brackets, braces, a digit, the comma, a
\* letter of prose and the backtick.  generateText trims the text, so it neither
\* starts nor ends with white space.
Alphabet == {"[", "]", "{", "}", "1", ",", "x", Tick}

MaxTextLen == 5

\* the texts of up to MaxTextLen characters without braces, and the texts one
\* character shorter with them
Texts ==
    SeqsUpTo(Alphabet \ {"{", "}"}, MaxTextLen) \cup SeqsUpTo(Alphabet, MaxTextLen - 1)

\* the call parseJsonResponse(text) of an operation, on the text generateText
\* returned; one call is followed per behaviour
ParseResponse ==
    /\ ~extraction.done
    /\ \E t \in Texts :
         /\ text' = t
         /\ extraction' = [done |-> TRUE, res |-> ParseJsonResponse(t)]
    /\ UNCHANGED <<apiKey, wrapperVars, lastOp, providerCalls, norm, rewrite,
                   progressVars>>

NextParse == ParseResponse

\* a configured key, no course generation under way, no text extracted yet
InitParse ==
    /\ apiKey = ConfiguredKey
    /\ input = [i \in Invocations |-> InputA]
    /\ IdleWrapper
    /\ IdleDirect
    /\ IdlePure
    /\ IdleProgress

SpecParse == InitParse /\ [][NextParse]_vars

-----------------------------------------------------------------------------
(* The progress operations, one action per await on the store *)

\* the call is over: its locals are gone, what it was called with and what it
\* returned stay
CallReturns(c, result) ==
    call' = [call EXCEPT ![c] = [NoCall EXCEPT !.op = call[c].op,
                                               !.courseId = call[c].courseId,
                                               !.moduleNumber = call[c].moduleNumber,
                                               !.pc = "returned",
                                               !.ret = result]]

ReturnProgress(row) == [outcome |-> "returned", row |-> row, error |-> NoMsg]

ReturnError(msg) == [outcome |-> "returned", row |-> 0, error |-> msg]

ProgressFrame == UNCHANGED <<apiKey, wrapperVars, lastOp, providerCalls, pureVars>>

\* completeModule(courseId, moduleNumber), up to its first await: an external or
\* missing id returns { progress: null, error: null } at once
CompleteModule(c) ==
    /\ call[c].pc = "idle"
    /\ \E cid \in CourseIds, n \in ModuleNumbers :
         call' = [call EXCEPT ![c] =
                    [NoCall EXCEPT !.op = "completeModule", !.courseId = cid,
                                   !.moduleNumber = n,
                                   !.pc = IF IsExternalId(cid) THEN "returned"
                                          ELSE "readProgress",
                                   !.ret = IF IsExternalId(cid) THEN ReturnProgress(0)
                                           ELSE NoResult]]
    /\ UNCHANGED <<progress, xp>>
    /\ ProgressFrame

\* submitQuizAnswer(courseId, moduleNumber, score, totalQuestions), up to its first
\* await; it does not look at the id
SubmitQuizAnswer(c) ==
    /\ call[c].pc = "idle"
    /\ \E cid \in CourseIds, n \in ModuleNumbers, score \in Scores :
         call' = [call EXCEPT ![c] =
                    [NoCall EXCEPT !.op = "submitQuizAnswer", !.courseId = cid,
                                   !.moduleNumber = n, !.score = score,
                                   !.pc = "readProgress"]]
    /\ UNCHANGED <<progress, xp>>
    /\ ProgressFrame

\* updateCourseProgress(courseId, updates) called directly, up to its first await on
\* the store: an external or missing id returns the error at once
UpdateCourseProgress(c) ==
    /\ call[c].pc = "idle"
    /\ \E cid \in CourseIds, updates \in DirectUpdates :
         call' = [call EXCEPT ![c] =
                    [NoCall EXCEPT !.op = "updateCourseProgress", !.courseId = cid,
                                   !.updates = updates,
                                   !.pc = IF IsExternalId(cid) THEN "returned"
                                          ELSE "checkExisting",
                                   !.ret = IF IsExternalId(cid) THEN ReturnError(ExternalMsg)
                                           ELSE NoResult]]
    /\ UNCHANGED <<progress, xp>>
    /\ ProgressFrame

\* await getCourseProgress(courseId).  completeModule keeps the completed count it
\* read and goes on to the course; submitQuizAnswer adds the score to the scores it
\* read and works out the XP
GetCourseProgress(c) ==
    /\ call[c].pc = "readProgress"
    /\ \E ok \in BOOLEAN :
         LET read == ProgressRead(progress, call[c].courseId, ok)
             quizXp == QuizXp(call[c].score, TotalQuestions)
         IN  call' = [call EXCEPT ![c] =
                IF call[c].op = "completeModule"
                THEN [@ EXCEPT !.updates = [NoUpdates EXCEPT !.completed_modules =
                                               Defined(read.completed_modules)],
                               !.pc = "readCourse"]
                ELSE [@ EXCEPT !.updates = [NoUpdates EXCEPT !.quiz_scores =
                                               Defined(WithScore(read.quiz_scores,
                                                                 call[c].moduleNumber,
                                                                 call[c].score))],
                               !.xpEarned = quizXp,
                               !.pc = IF quizXp > 0 THEN "readXp" ELSE "checkExisting"]]
    /\ UNCHANGED <<progress, xp>>
    /\ ProgressFrame

\* await getCourseById(courseId); if (!course) throw; then the new count, the
\* percentage and the XP are worked out from what was read
GetCourseById(c) ==
    /\ call[c].pc = "readCourse"
    /\ \E ok \in BOOLEAN :
         IF ok /\ call[c].courseId = StoredCourse.id
         THEN LET current == call[c].updates.completed_modules.val
                  earned == CompletionXp(current, call[c].moduleNumber)
              IN  call' = [call EXCEPT ![c] =
                     [@ EXCEPT !.updates = CompletionUpdates(current, call[c].moduleNumber,
                                                             StoredCourse.total_modules),
                               !.xpEarned = earned,
                               !.pc = IF earned > 0 THEN "readXp" ELSE "checkExisting"]]
         ELSE CallReturns(c, ReturnError(CourseNotFoundMsg))
    /\ UNCHANGED <<progress, xp>>
    /\ ProgressFrame

\* await supabase.from('users').select('xp'); if (user) ...
ReadXp(c) ==
    /\ call[c].pc = "readXp"
    /\ \E ok \in BOOLEAN :
         call' = [call EXCEPT ![c] =
                    IF ok THEN [@ EXCEPT !.xpRead = xp, !.pc = "writeXp"]
                    ELSE [@ EXCEPT !.pc = "checkExisting"]]
    /\ UNCHANGED <<progress, xp>>
    /\ ProgressFrame

\* await supabase.from('users').update({ xp: (user.xp || 0) + xpEarned }); the result
\* of the call is not looked at
WriteXp(c) ==
    /\ call[c].pc = "writeXp"
    /\ \E ok \in BOOLEAN :
         xp' = IF ok THEN call[c].xpRead + call[c].xpEarned ELSE xp
    /\ call' = [call EXCEPT ![c] = [@ EXCEPT !.xpRead = 0, !.xpEarned = 0,
                                             !.pc = "checkExisting"]]
    /\ UNCHANGED progress
    /\ ProgressFrame

\* updateCourseProgress as called by completeModule and submitQuizAnswer, and its
\* select of the existing row: an external or missing id returns the error before
\* the store is asked
CheckExisting(c) ==
    /\ call[c].pc = "checkExisting"
    /\ IF IsExternalId(call[c].courseId)
       THEN CallReturns(c, ReturnError(ExternalMsg))
       ELSE \E ok \in BOOLEAN :
              call' = [call EXCEPT ![c] =
                         [@ EXCEPT !.existing = Single(progress, call[c].courseId, ok),
                                   !.xpEarned = 0,
                                   !.pc = "writeProgress"]]
    /\ UNCHANGED <<progress, xp>>
    /\ ProgressFrame

\* if (existing) update the row with that id, else insert a new row; if (error) throw
WriteProgress(c) ==
    /\ call[c].pc = "writeProgress"
    /\ \E ok \in BOOLEAN :
         IF ~ok
         THEN /\ CallReturns(c, ReturnError(ProgressWriteMsg))
              /\ UNCHANGED progress
         ELSE IF call[c].existing # 0
         THEN /\ progress' = UpdateProgress(progress, call[c].existing, call[c].updates)
              /\ CallReturns(c, ReturnProgress(call[c].existing))
         ELSE /\ progress' = Append(progress, InsertedRow(call[c].courseId, call[c].updates))
              /\ CallReturns(c, ReturnProgress(Len(progress) + 1))
    /\ UNCHANGED xp
    /\ ProgressFrame

NextProgress ==
    \E c \in Calls :
        \/ CompleteModule(c)
        \/ SubmitQuizAnswer(c)
        \/ UpdateCourseProgress(c)
        \/ GetCourseProgress(c)
        \/ GetCourseById(c)
        \/ ReadXp(c)
        \/ WriteXp(c)
        \/ CheckExisting(c)
        \/ WriteProgress(c)

\* a configured key, no course generation under way, no progress yet
InitProgress ==
    /\ apiKey = ConfiguredKey
    /\ input = [i \in Invocations |-> InputA]
    /\ IdleWrapper
    /\ IdleDirect
    /\ IdlePure
    /\ IdleProgress

SpecProgress == InitProgress /\ [][NextProgress]_vars

-----------------------------------------------------------------------------
(* generateAICourse, what it makes of a store error: the if (jobError) and   *)
(* the if (courseError) blocks, given any error the store can answer with    *)

ErrorCodes == {"42P01", "23502", "42501", "PGRST204"}

ErrorPieces == {"relation ", "does not exist", "user_id", "owner_id", "courses"}

\* an error of the store: a code and a message of two pieces
StoreErrors ==
    {[code |-> code, message |-> <<a, b>>] :
        code \in ErrorCodes, a \in ErrorPieces, b \in ErrorPieces}

\* the job insert came back with this error
JobInsertFails ==
    \E e \in StoreErrors :
        rewrite' = [stage |-> "jobInsert", error |-> e, thrown |-> JobInsertThrown(e)]
    /\ UNCHANGED <<apiKey, wrapperVars, lastOp, providerCalls, norm, text, extraction,
                   progressVars>>

\* the course insert came back with this error
CourseInsertFails ==
    \E e \in StoreErrors :
        rewrite' = [stage |-> "courseInsert", error |-> e, thrown |-> CourseInsertThrown(e)]
    /\ UNCHANGED <<apiKey, wrapperVars, lastOp, providerCalls, norm, text, extraction,
                   progressVars>>

NextStore ==
    \/ JobInsertFails
    \/ CourseInsertFails

InitStore ==
    /\ apiKey = ConfiguredKey
    /\ input = [i \in Invocations |-> InputA]
    /\ IdleWrapper
    /\ IdleDirect
    /\ IdlePure
    /\ IdleProgress

SpecStore == InitStore /\ [][NextStore]_vars

-----------------------------------------------------------------------------
(* Courses.tsx, handleGenerateCourse: what the caller makes of the result *)

\* if (result.error || !result.course) throw new Error(result.error || '...'), caught
\* by its own catch and shown as a toast; otherwise the success toast
HandleGenerateCourse(r) ==
    IF r.error # NoMsg \/ r.course = 0
    THEN [title |-> "Generation failed",
          description |-> IF r.error # NoMsg THEN r.error
                          ELSE Lit("Failed to generate course.")]
    ELSE [title |-> "Course generated!", description |-> NoMsg]

-----------------------------------------------------------------------------
(* Claims *)

HasJob(i) == jobId[i] \in DOMAIN jobs

JobOf(i) == jobs[jobId[i]]

\* the inner catch of the wrapper caught an error, and the call is over
FailedInWrapper(i) == pc[i] = "returned" /\ caught[i] # NoMsg

\* provider call, extraction, course insert and module insert all succeeded, and the
\* call is over
PipelineSucceeded(i) ==
    /\ pc[i] = "returned"
    /\ calls[i] > 0
    /\ courseId[i] \in DOMAIN courses
    /\ modAttempted[i]
    /\ caught[i] = NoMsg

\* C1: an invocation that has dispatched a provider call has its job row in the
\* store, holding its input snapshot, and the row is 'running' while the call is
\* in flight: no provider call happens while the job row does not exist.
C1_JobRowBeforeProviderCall ==
    \A i \in Invocations :
        calls[i] > 0 =>
            /\ HasJob(i)
            /\ JobOf(i).inputs = input[i]
            /\ (pc[i] = "awaitProvider" => JobOf(i).status = "running")

C1_Witness ==
    \E i \in Invocations : pc[i] = "awaitProvider" /\ calls[i] = 1 /\ HasJob(i)

C3_SuccessMeansJobDone ==
    \A i \in Invocations :
        PipelineSucceeded(i) =>
            /\ JobOf(i).status = "done"
            /\ JobOf(i).result # 0
            /\ JobOf(i).result = courseId[i]

\* C4 (as claimed): after an error thrown by a pipeline stage once the job row
\* exists, the job is 'failed' and its error message is the thrown error's message.
C4_ErrorMeansJobFailed ==
    \A i \in Invocations :
        FailedInWrapper(i) =>
            /\ JobOf(i).status = "failed"
            /\ JobOf(i).error_message = caught[i]

\* C5 (as claimed): when generateAICourse has returned after creating a job, the job
\* is in a terminal status and exactly one update was applied to it.
C5_ExactlyOneUpdate ==
    \A i \in Invocations :
        (pc[i] = "returned" /\ HasJob(i)) =>
            /\ JobOf(i).status \in {"done", "failed"}
            /\ jobWrites[jobId[i]] = 1

\* C6 (as claimed): on an exception from a pipeline stage of a job-wrapped
\* generation, the caller of generateAICourse observes a thrown exception.
C6_CallerSeesException ==
    \A i \in Invocations : FailedInWrapper(i) => ret[i].outcome = "threw"

\* C6 (amended): the inner catch rethrows, the outer catch of generateAICourse
\* returns { course: null, error: message of the rethrown error }; the call never
\* throws, and handleGenerateCourse shows that message as the failure toast.
C6_CallerSeesErrorResult ==
    \A i \in Invocations :
        /\ ret[i].outcome # "threw"
        /\ FailedInWrapper(i) =>
            /\ ret[i] = [outcome |-> "returned", course |-> 0, error |-> caught[i]]
            /\ HandleGenerateCourse(ret[i]) =
                   [title |-> "Generation failed", description |-> caught[i]]

C6_Witness ==
    \E i \in Invocations :
        FailedInWrapper(i) /\ JobOf(i).status = "failed" /\ ret[i].error = TypeErrorMsg

C8_JobStaysRunning ==
    apiKey = <<>> => \A j \in DOMAIN jobs : jobs[j].status = "running"

\* C8 (amended): with no credential, generateAICourse still creates its job row as
\* 'running' and then marks it 'failed' with the generic course-generation message
\* (when the store applies that update); the row never becomes 'done', never gets a
\* result reference, and no provider call is made.
C8_JobFailsWithoutCredential ==
    apiKey = <<>> =>
        /\ \A j \in DOMAIN jobs :
              /\ jobs[j].status \in {"running", "failed"}
              /\ jobs[j].result = 0
              /\ jobs[j].status = "failed" => jobs[j].error_message = CourseGenericMsg
        /\ \A i \in Invocations :
              /\ calls[i] = 0
              /\ (pc[i] = "returned" /\ HasJob(i)) => ret[i].error = CourseGenericMsg

C8_Witness ==
    apiKey = <<>> /\ \E i \in Invocations :
        pc[i] = "returned" /\ HasJob(i) /\ JobOf(i).status = "failed"

\* the job of invocation i is marked 'failed' in this step
BecomesFailed(i) ==
    /\ pc[i] = "markFailed"
    /\ HasJob(i)
    /\ JobOf(i).status = "running"
    /\ jobs'[jobId[i]].status = "failed"

C10_ModulesAfterCourse ==
    \A i \in Invocations :
        (modAttempted[i] \/ pc[i] = "insertModules") =>
            /\ courseId[i] \in DOMAIN courses
            /\ courses[courseId[i]].owner_id # ""

C10_Witness ==
    \E i \in Invocations : modAttempted[i] /\ courseId[i] \in DOMAIN courses

\* the module insert of invocation i failed after its course insert succeeded, and
\* the call is over
ModuleInsertFailed(i) ==
    pc[i] = "returned" /\ modAttempted[i] /\ caught[i] # NoMsg

\* C11 (as claimed): if the module insert fails after the course insert succeeded,
\* the course row is left in the store and the job is 'failed' with the
\* module-insert error's message.
C11_OrphanCourseJobFailed ==
    \A i \in Invocations :
        ModuleInsertFailed(i) =>
            /\ courseId[i] \in DOMAIN courses
            /\ JobOf(i).status = "failed"
            /\ JobOf(i).error_message = caught[i]

C13_SingleAttempt ==
    \A i \in Invocations :
        /\ calls[i] <= 1
        /\ stage[i] = "provider" => (pc[i] = "markFailed" /\ calls[i] = 1)
        /\ (pc[i] = "returned" /\ caught[i] # NoMsg) => ret[i].error = caught[i]

C13_Witness ==
    \E i \in Invocations :
        /\ pc[i] = "returned" /\ calls[i] = 1 /\ courseId[i] = 0
        /\ caught[i] = CourseGenericMsg


\* the entries of the collection an operation returned
Survivors ==
    CASE norm.kind \in {"detailedRoadmap", "firstDetailedRoadmap"} -> norm.res.value.stages
      [] norm.kind = "courseOutline" -> norm.res.value.modules
      [] OTHER -> norm.res.value

\* C14: every item that survives the shaping of generateQuiz has at least two options
\* and a correctAnswer that is an integer from 0 up to, not including, the number of
\* its options
C14_SurvivorsInRange ==
    (norm.kind = "quiz" /\ norm.res.ok) =>
        \A k \in 1..Len(Survivors.a) :
            LET item == Survivors.a[k]
            IN  /\ Len(item.options.a) >= 2
                /\ IsInteger(item.correctAnswer)
                /\ 0 <= item.correctAnswer.q
                /\ item.correctAnswer.q < Len(item.options.a) + Len(item.options.a)

\* some resource of the module has a type that, in lower case, is one of types
HasTypeIn(module, types) ==
    \E k \in 1..Len(module.resources.a) :
        /\ module.resources.a[k].type.t = "string"
        /\ ToLowerCase(module.resources.a[k].type.s) \in types

\* some resource of the module has a type that is, letter for letter, one of types
HasExactTypeIn(module, types) ==
    \E k \in 1..Len(module.resources.a) :
        /\ module.resources.a[k].type.t = "string"
        /\ module.resources.a[k].type.s \in types

\* C15, as amended: every module generateCourseOutline returns has a resource whose
\* type is video, one whose type is article, doc or documentation, the type compared
\* without regard to letter case, and a quiz question
C15_ModuleCoverage ==
    (norm.kind = "courseOutline" /\ norm.res.ok) =>
        \A k \in 1..Len(Survivors.a) :
            /\ HasTypeIn(Survivors.a[k], {Lit("video")})
            /\ HasTypeIn(Survivors.a[k], {Lit("article"), Lit("doc"), Lit("documentation")})
            /\ Len(Survivors.a[k].quizQuestions.a) >= 1

\* a module that came with no resources and no quiz questions is returned with a
\* video, an article and the placeholder question
C15_Witness ==
    /\ norm.kind = "courseOutline"
    /\ norm.res.ok
    /\ norm.raw.modules.a[1] = BareModule
    /\ Len(Survivors.a[1].resources.a) = 2
    /\ HasExactTypeIn(Survivors.a[1], {Lit("video")})
    /\ HasExactTypeIn(Survivors.a[1], {Lit("article")})
    /\ Survivors.a[1].quizQuestions.a = <<PlaceholderQuestion(BareModule, 1)>>

\* C15, as stated: every module generateCourseOutline returns has a resource of type
\* video, a resource of type article or doc, and a quiz question
C15_ExactTypes ==
    (norm.kind = "courseOutline" /\ norm.res.ok) =>
        \A k \in 1..Len(Survivors.a) :
            /\ HasExactTypeIn(Survivors.a[k], {Lit("video")})
            /\ HasExactTypeIn(Survivors.a[k], {Lit("article"), Lit("doc")})
            /\ Len(Survivors.a[k].quizQuestions.a) >= 1

C17_NoEmptySuccess ==
    (norm.kind # "none" /\ norm.res.ok) => (Survivors.t = "array" /\ Survivors.a # <<>>)

\* C18: shaping what an operation returned again, under the same request, returns the
\* same value
C18_Idempotent ==
    (norm.kind # "none" /\ norm.res.ok) =>
        Shape(norm.kind, norm.res.value, norm.in) = norm.res


\* the text inside a fenced block: the fence with its tag, a line break, the text, a
\* line break, the closing fence
Fenced(t, tag) == Fence \o tag \o <<"\n">> \o t \o <<"\n">> \o Fence

\* no tag, the json tag in lower case and in mixed case
FenceTags == {<<>>, <<"j", "s", "o", "n">>, <<"J", "s", "O", "N">>}

\* C19: parseJsonResponse makes of a text inside a fenced block, tagged json in any
\* letter case or not tagged, what it makes of the text alone: the same payload, or a
\* failure in both cases
C19_FenceMakesNoDifference ==
    extraction.done =>
        \A tag \in FenceTags :
            LET fenced == ParseJsonResponse(Fenced(text, tag))
            IN  /\ fenced.ok = extraction.res.ok
                /\ fenced.value = extraction.res.value

\* the text 1, alone and inside a fence tagged JsON, is the number 1
C19_Witness ==
    /\ extraction.done
    /\ text = <<"1">>
    /\ extraction.res = Returned(Num(1))
    /\ ParseJsonResponse(Fenced(text, <<"J", "s", "O", "N">>)) = Returned(Num(1))

\* C20: when the text without its fences is no JSON, and the substring from the first
\* opening brace or bracket to the last closer of its kind is no JSON either,
\* parseJsonResponse throws and returns no payload
C20_NoRepair ==
    (/\ extraction.done
     /\ text # <<>>
     /\ ~JsonParse(StripFences(text)).ok
     /\ \/ MatchStarts(StripFences(text)) = {}
        \/ ~JsonParse(Match(StripFences(text))).ok)
        => (~extraction.res.ok /\ extraction.res.error # NoMsg
            /\ extraction.res.value = Undef)

\* prose, then an array with a comma before its closing bracket
C20_Witness ==
    /\ extraction.done
    /\ text = <<"x", "[", "1", ",", "]">>
    /\ Match(StripFences(text)) = <<"[", "1", ",", "]">>
    /\ extraction.res = Thrown(JsonSyntaxMsg)


HasIndex(item) == ~Nullish(item.correctAnswer) \/ ~Nullish(item.correct_answer)

\* C22: a raw quiz item with neither correctAnswer nor correct_answer does not appear
\* in what generateQuiz returns: the result has no more items than the payload has
\* items that carry an index, and none when the operation throws
C22_MissingIndexDropped ==
    (norm.kind = "quiz" /\ norm.raw.t = "array") =>
        IF norm.res.ok
        THEN Len(Survivors.a) <= Len(SelectSeq(norm.raw.a, HasIndex))
        ELSE TRUE

\* C23: generateCourseOutline called with includeIDE false returns every module with
\* a null ideSetup; called with includeIDE left out it returns every module with an
\* ideSetup when the coding pattern finds a match in the topic line ('Python', and
\* 'Painting' for its 'ai'), and every module with a null ideSetup when it finds none
C23_IdeSetupFollowsRequest ==
    (norm.kind = "courseOutline" /\ norm.res.ok) =>
        \A k \in 1..Len(Survivors.a) :
            /\ norm.in.includeIDE = JsFalse => Survivors.a[k].ideSetup = Null
            /\ norm.in.includeIDE = Undef =>
                  (Survivors.a[k].ideSetup # Null
                      <=> norm.in.topic \in {Str(Lit("Python")), Str(Lit("Painting"))})

\* an outline asked for with includeIDE false on a coding topic, for a payload whose
\* module came with an ideSetup of its own, and returned without it
C23_Witness ==
    /\ norm.kind = "courseOutline" /\ norm.res.ok
    /\ norm.in.includeIDE = JsFalse
    /\ norm.in.topic = Str(Lit("Python"))
    /\ \E k \in 1..Len(Survivors.a) :
          /\ Survivors.a[k].ideSetup = Null
          /\ \E j \in 1..Len(norm.raw.modules.a) : SuppliedSetup(norm.raw.modules.a[j])

\* the module rows in the store that belong to the course
ModulesOf(cid) == SelectSeq(modules, LAMBDA row : row.course_id = cid)

\* C24: a job row with status 'done' references a course row that is in the store, and
\* the invocation that owns the job inserted that course and then its module rows
\* without an error: the course's modules are all in the store
C24_DoneMeansComplete ==
    \A j \in DOMAIN jobs :
        jobs[j].status = "done" =>
            /\ jobs[j].result \in DOMAIN courses
            /\ Len(ModulesOf(jobs[j].result)) = courses[jobs[j].result].total_modules
            /\ \E i \in Invocations :
                  /\ jobId[i] = j
                  /\ courseId[i] = jobs[j].result
                  /\ modAttempted[i]
                  /\ caught[i] = NoMsg

\* two invocations side by side: the job of one is 'done' with its course and modules
\* stored, the other failed on its module insert and left its job not 'done'
C24_Witness ==
    \E i, k \in Invocations :
        /\ HasJob(i) /\ JobOf(i).status = "done"
        /\ Len(ModulesOf(JobOf(i).result)) = 2
        /\ ModuleInsertFailed(k)
        /\ HasJob(k) /\ JobOf(k).status # "done"
        /\ courseId[k] \in DOMAIN courses

\* every call made so far is a call of one of the operations
OnlyCalls(ops) == \A c \in Calls : call[c].op \in ops \cup {"none"}

\* no call is under way
Quiescent == \A c \in Calls : call[c].pc \in {"idle", "returned"}

\* the progress rows of the user for the stored course
StoredProgress == Matching(progress, StoredCourse.id)

\* C25: while completeModule is the only operation called, no step of any call lowers
\* the completed_modules of a progress row
C25_CompletedNeverDecreases ==
    [][(\A c \in Calls : call'[c].op \in {"none", "completeModule"}) =>
          \A k \in DOMAIN progress :
              progress'[k].completed_modules >= progress[k].completed_modules]_vars

\* C26: once the calls of completeModule are over, the XP of the user is 50 times the
\* completed_modules the store holds for the course
C26_XpConserved ==
    (OnlyCalls({"completeModule"}) /\ Quiescent /\ Cardinality(StoredProgress) <= 1) =>
        /\ StoredProgress = {} => xp = 0
        /\ \A k \in StoredProgress : xp = XpPerModule * progress[k].completed_modules

\* C27: whatever completeModule wrote, a progress row counts no more completed modules
\* than the course has and its percentage lies between 0 and 100
C27_ProgressInRange ==
    OnlyCalls({"completeModule"}) =>
        \A k \in StoredProgress :
            /\ progress[k].completed_modules <= StoredCourse.total_modules
            /\ progress[k].progress_percentage.num >= 0
            /\ progress[k].progress_percentage.num
                  <= 100 * progress[k].progress_percentage.den

\* C28: while every call made is for an id that is missing, 'undefined' or starts
\* with 'ext-', no progress row is written and the XP of the user is not changed
C28_ExternalLeavesStore ==
    (\A c \in Calls : call[c].op # "none" => IsExternalId(call[c].courseId)) =>
        /\ progress = <<>>
        /\ xp = 0

\* C29: the store holds at most one progress row for a user and a course
C29_OneRowPerCourse == Cardinality(StoredProgress) <= 1

\* C30: every module row generateAICourse stored has concepts, examples and
\* content_blocks in its content, with ide_tasks beside them or without
C30_ContentComplete ==
    \A k \in DOMAIN modules :
        /\ modules[k].content.has_concepts
        /\ modules[k].content.has_examples
        /\ modules[k].content.has_content_blocks

====
